---- MODULE Spec2Model ----
(***************************************************************************)
(* A model of simbabuild's target graph engine: the registry with its      *)
(* declare/merge operation (api.py, _.update), the engine phases           *)
(* (api.py, _.load), the process-wide error counter (utility.py) and the   *)
(* prepare/expand lifecycle of the expandable mixin (apimixins.py) on top  *)
(* of asyncio's FIFO lock.                                                 *)
(*                                                                         *)
(* The specifications share the variables:                                 *)
(*   Spec       the engine: preload -> load -> prepare -> postload, with   *)
(*              declarations in every phase and the main task expanding    *)
(*              registered nodes in postload;                              *)
(*   SpecLife   the expandable mixin alone: several tasks calling prepare  *)
(*              and expand on freshly constructed nodes in any order;      *)
(*   SpecCancel the same with hooks that raise and waiters that are        *)
(*              cancelled; SpecGraph, expand over an acyclic graph;        *)
(*   SpecFind, SpecFt, SpecEnv, SpecDep, SpecInc, SpecErr, SpecVal,        *)
(*   SpecGen, SpecMerge: the finder chain, the filetype table, the         *)
(*   environment defaults, a dependency's output and dependencies,         *)
(*   include, the error counter, the validator, generator.generate and     *)
(*   the merge loop of update, each on its own;                            *)
(*   SpecBuild, SpecNinja: the direct and the graph-file orchestrator.     *)
(*                                                                         *)
(* A process exit (sys.exit through fatal/stop_on_error, or an exception   *)
(* that nothing in the sources catches and that therefore ends             *)
(* asyncio.run) is the flag `halted`: no action is enabled afterwards.     *)
(***************************************************************************)
EXTENDS Integers, Sequences, FiniteSets, TLC

\* ------------------------------------------------------------------ bounds

\* Declarations (target constructor calls) in one run.
MaxDecl == 2
\* Concurrent tasks of SpecLife.
NumTasks == 3
\* prepare/expand calls that the tasks of SpecLife make in one run.
MaxCalls == 4
\* expand calls that the main task of Spec makes after the load.
MaxExpand == 2
\* Nodes constructed in SpecLife.
NumLifeNodes == 1
\* Finder targets of SpecFind.
NumFinders == 3
\* Filetype targets of SpecFt and the length of their extension lists.
NumFiletypes == 2
MaxExts == 2
\* Environment targets of SpecEnv.
NumEnvs == 3
\* Source paths and explicit dependencies of the dependency of SpecDep.
MaxSources == 2
MaxDeps == 1
\* include calls that the recipes of SpecInc make in one load.
MaxIncludes == 3
\* error/fatal calls of SpecErr.
MaxErrors == 3
\* generator.generate calls of SpecGen.
NumGenCalls == 3
\* Declarations merged into the registered node of SpecMerge.
MaxMerges == 2
\* The tasks of SpecGraph that call expand.
NumWorkers == 2

\* ------------------------------------------------------- classes and names

\* The target classes of the model: the generic target, a dependency (plain
\* name, fields with defaults), a file (prefixed name, no forward references)
\* and, for SpecLife only, files: expandable without _prepare/_resolve hooks.
Classes == {"target", "dependency", "file"}

\* Raw names, as sequences of the tokens that '::' separates: 'x', 'file::x'.
Names == {<<"x">>, <<"file", "x">>}

\* Mixin prefixed (namedtarget): the classes whose qualified name is prefixed.
Prefixed(c) == c = "file"

\* Mixin nofwdref: is_forward_ref() is constantly False.
NoFwdRef(c) == c = "file"

\* target.target_name / prefixed.target_name: '%s::%s' % (class, name).
target_name(c, nm) == IF Prefixed(c) THEN <<c>> \o nm ELSE nm

TNames == {target_name(c, nm) : c \in Classes, nm \in Names}

\* One node per registry key at most, so this many node slots suffice.
Nodes == 1 .. Cardinality(TNames)

\* Public fields other than name, their declared values, and the default the
\* dependency validator emplaces.
Keys == {"kind", "provider"}
Vals(k) == IF k = "kind" THEN {"a", "b"} ELSE {"a"}
Absent == "absent"
DefaultVal == "default"
NoFields == [k \in Keys |-> Absent]
FieldMaps == {f \in [Keys -> {"a", "b", Absent}] :
                \A k \in Keys : f[k] \in Vals(k) \cup {Absent}}

\* The fields a class's validator declares with field(...).
Declared(c) == IF c = "dependency" THEN Keys ELSE {}

\* '_prepare' in dir(cls) / '_resolve' in dir(cls).
HasPrepare(c) == c # "files"
HasResolve(c) == c # "files"

Tasks == 1 .. NumTasks

Finders == 1 .. NumFinders
\* The path an external was declared with (path=...), as opposed to the path
\* finder f sets, which is f.
GivenPath == NumFinders + 1

\* Environments; 1 is environment.default. An environment's declared parent
\* has a smaller number (the numbers say nothing about registration order).
Envs == 1 .. NumEnvs
DefaultEnv == 1
\* The inherited fields, one of each kind: systarget stands for the fields
\* that the default environment must declare (systarget, archiver, linker:
\* required=required), includes for those that fall back to an empty
\* collection (includes, variables).
EnvFields == {"systarget", "includes"}
RequiredOfDefault == {"systarget"}
\* Attribute values: NoAttr (the object has no such attribute), e (the value
\* environment e declared), None, the empty collection, a value assigned later.
NoAttr == 0
NoneVal == NumEnvs + 1
EmptyColl == NumEnvs + 2
LaterVal == NumEnvs + 3

\* Paths: directory, file name without extension, extension (os.path.join and
\* os.path.splitext work on these parts).
Path(d, st, e) == [dir |-> d, stem |-> st, ext |-> e]
\* None where a path is expected.
NonePath == Path("", "", "")
\* os.path.dirname(self._context.__file__): the directory of the recipe.
CtxFolder == "ctx"
\* The dependency's name.
DepName == "app"
Kinds == {"executable", "static_library", "shared_library", "object",
          "unknown"}
Providers == {"local", "internal"}

\* The nodes of the build graph of SpecBuild and their classes: three
\* dependencies (not local, each with a generator), an external, a file, a
\* node of the generic target class (what api.target(t) leaves for a
\* requested target name, main.py line 29), and obj, the object node that
\* get_dependencies declares for the source of lib when lib has sources.
BuildNodes == {"lib", "tool", "app", "cc", "src", "ref", "obj"}
BuildClass(n) ==
    IF n \in {"lib", "tool", "app", "obj"} THEN "dependency"
    ELSE IF n = "cc" THEN "external"
    ELSE IF n = "src" THEN "file"
    ELSE "target"
\* The dependencies fields a recipe can give the three dependencies.
BuildGraphs ==
    {g \in [BuildNodes -> SUBSET {"lib", "tool"}] :
        /\ \A n \in BuildNodes \ {"tool", "app"} : g[n] = {}
        /\ g["tool"] \subseteq {"lib"}}
\* The target sets handed to the orchestrator: the whole registry, with or
\* without a node of the generic class, or requested subsets.
WorkingSets == {BuildNodes \ {"ref", "obj"}, BuildNodes \ {"obj"},
                {"app", "tool"}, {"lib", "src"}}
\* No exception.
NoExc == ""

\* Recipe paths, as sequences of the components that os.sep separates; an
\* absolute path starts with the component "/". The recipe tree of SpecInc:
\* /simba (the root recipe), /a and /sub/simba.
RootRecipe == <<"/", "simba">>
RecipeFiles == {RootRecipe, <<"/", "a">>, <<"/", "sub", "simba">>}
RecipeDirs == {<<"/">>, <<"/", "sub">>}
\* The arguments the recipes pass to include.
IncludeArgs == {<<"a">>, <<"sub">>, <<"..", "a">>, <<"/", "a">>}

\* The public fields of the node of SpecVal, a generator: name, the fields
\* command (required), depfile (optional, default None) and includefmt
\* (optional, default "-I '%s'"), and extra, which no field(...) declares.
VKeys == {"name", "command", "depfile", "includefmt", "extra"}
\* Field values: the field is absent, None, a str, an int, or the default of
\* includefmt (a str).
VValues == {"absent", "none", "text", "number", "-I"}
TypeOf(v) == IF v \in {"text", "-I"} THEN "str"
             ELSE IF v = "number" THEN "int" ELSE "NoneType"
\* The field(...) calls of the scope, in order: __enter__ declares name, the
\* body the others. (__enter__ also declares expanded, which is the class's
\* bool property and always passes.)
Schema ==
    << [f |-> "name", types |-> {"str"}, required |-> TRUE,
        default |-> "text"],
       [f |-> "command", types |-> {"str"}, required |-> TRUE,
        default |-> "none"],
       [f |-> "depfile", types |-> {"str"}, required |-> FALSE,
        default |-> "none"],
       [f |-> "includefmt", types |-> {"str"}, required |-> FALSE,
        default |-> "-I"] >>

\* The generator.generate calls of SpecGen, what a call can be given (an
\* output path and a command that formats; output=None; a command or
\* description that format_map cannot format) and the exit statuses of a
\* subprocess.
GenCalls == 1 .. NumGenCalls
GenInputs == {"ok", "no_output", "bad_format"}
ExitStatuses == {0, 1, 2}
NoStatus == -1

\* The attributes of the objects of SpecMerge, their names as token sequences
\* in which a leading "_" token is the leading underscore: kind, provider and
\* _frame.
MKeys == {<<"kind">>, <<"provider">>, <<"_", "frame">>}
MVals == {"a", "b"}
MObjs == [MKeys -> MVals \cup {"absent"}]

\* The registry of SpecNinja: two generators, two dependencies, and an
\* environment as a target that is neither.
NinjaNodes == {"cc", "ld", "lib", "app", "env"}
NinjaClass(n) ==
    IF n \in {"cc", "ld"} THEN "generator"
    ELSE IF n \in {"lib", "app"} THEN "dependency"
    ELSE "environment"
NinjaGens == {n \in NinjaNodes : NinjaClass(n) = "generator"}
NinjaDeps == {n \in NinjaNodes : NinjaClass(n) = "dependency"}
\* A dependency's generator field after prepare, when no generator was given.
NoGenerator == "none"

\* The nodes of SpecGraph: two dependencies, a generator and its executor
\* (an external), and the tasks.
GNodes == {"app", "lib", "gen", "exe"}
Workers == 1 .. NumWorkers
\* The graphs on them, node -> the nodes its resolve hook expands: a
\* dependency its generator and its dependencies (api.py lines 498-507), a
\* generator its executor (line 674), an external nothing. All are acyclic.
Graphs == {g \in [GNodes -> SUBSET GNodes] :
             /\ g["app"] \in {{"lib"}, {"lib", "gen"}}
             /\ g["lib"] \subseteq {"gen", "exe"}
             /\ g["gen"] = {"exe"}
             /\ g["exe"] = {}}

Filetypes == 1 .. NumFiletypes
\* File extensions, as os.path.splitext returns them.
Exts == {".c", ".cc"}
ExtLists == UNION {[1 .. k -> Exts] : k \in 1 .. MaxExts}
\* The files that get_sources finds (expand_files joins them to the recipe's
\* directory).
SourcePaths == {Path(CtxFolder, st, e) : st \in {"a", "b"}, e \in Exts}
SourceLists == UNION {[1 .. k -> SourcePaths] : k \in 0 .. MaxSources}

VARIABLES
    phase,      \* _.phase
    registry,   \* _.registry: qualified name -> node (0: no entry)
    nextId,     \* the next fresh node (objects are numbered as registered)
    cls,        \* node -> its __class__ ("none": slot unused)
    name,       \* node -> its name field
    fields,     \* node -> its public fields
    haserror,   \* utility.haserror
    halted,     \* the process has exited
    visited,    \* _.visited (the targets in it)
    loopIdx,    \* position of _.load's loop over the registry
    ndecl,      \* declarations made so far
    ret,        \* the node the last declaration returned (0: none)
    act,        \* what the last step did
    prepared,   \* node -> _prepared
    expanded,   \* node -> _expanded
    lockExists, \* node -> _expand_lock has been created
    locked,     \* node -> Lock._locked
    waiters,    \* node -> Lock._waiters, in arrival order
    woken,      \* the tasks whose waiter future has been resolved
    pc,         \* task -> where it is suspended
    tnode,      \* task -> the node of its call
    ncalls,     \* prepare/expand calls made so far
    prepRuns,   \* node -> how often _prepare was started
    resRuns,    \* node -> how often _resolve was started
    prepHook,   \* node -> "none" | "running" | "done"
    resHook,    \* node -> "none" | "running" | "done"
    poolAll,    \* TargetPool.all
    retEvent    \* <<op, node>> of the call that returned in the last step

regVars == <<phase, registry, nextId, cls, name, fields, visited, loopIdx,
             ndecl, ret>>
errVars == <<haserror, halted>>
lockVars == <<lockExists, locked, waiters, woken>>
lifeVars == <<prepared, expanded, pc, tnode, ncalls, prepRuns, resRuns,
              prepHook, resHook, poolAll, retEvent>>

VARIABLES
    finders,       \* _.finders
    finderOrder,   \* the finders in the order they were registered
    finderLocates, \* finder -> its hook locates the external and sets its path
    extPath,       \* external.path (0: unset, f: set by finder f, Given: declared)
    iterated,      \* the finders the loop of external._resolve has passed
    invoked,       \* the finders whose hook was called, in call order
    resolvePc      \* where external._resolve is

VARIABLES
    filetypes,     \* _.filetypes: extension -> filetype (0: no entry)
    ftExtensions,  \* filetype -> its extensions field
    ftValid,       \* filetype -> its required fields are present and typed
    ftPrepared     \* the filetypes whose _prepare was called

VARIABLES
    envParent,     \* environment -> the parent it was declared with (0: none)
    envDeclared,   \* environment -> the inherited fields it declared itself
    envVal,        \* environment -> field -> the attribute's value
    envPrepared    \* the environments whose _prepare has run

VARIABLES
    dep,           \* the fields of one prepared dependency
    outResult,     \* what its get_output returned
    yielded,       \* the nodes its get_dependencies yielded, in order
    created,       \* the names get_dependencies declared
    depCalls       \* which of the two were called

VARIABLES
    bDeps,         \* build node -> its dependencies field
    bSources,      \* the build nodes that have sources
    bFails,        \* the build nodes whose own resolve hook raises
    dryRun,        \* api.simba.options.dry_run
    workingSet,    \* the targets handed to builder.build
    dispatched,    \* the targets the orchestrator's loop has passed
    invs,          \* the generate tasks: node, parent task, state, exception
    topErrs,       \* the exceptions the orchestrator's task group collected
    topAborted,    \* the orchestrator's task group is aborting
    bodyRaised,    \* the orchestrator's loop raised
    topStarted,    \* the targets a top-level generate task was created for
    bExpanded,     \* the build nodes with _expanded set
    synthDone,     \* the build nodes whose source nodes are declared, expanded
    cmdRuns,       \* build node -> executions of its generator command
    cmdInputs,     \* build node -> the input list of its last command
    hookCalled,    \* builder.build invoked the backend hook
    dropped,       \* exceptions a task group collected and did not re-raise
    buildPc        \* where builder.build is

VARIABLES
    incVisited,    \* the recipe paths in _.visited
    incStack,      \* the __file__ of the contexts being executed, innermost last
    executed,      \* the paths handed to exec, in order
    nInc           \* include calls made so far

VARIABLES
    errLog         \* the prefixes of the messages error_console logged

VARIABLES
    vGiven,        \* validated node: public field -> the value it was given
    vFields,       \* validated node: public field -> its value now
    vDeclared,     \* TargetValidator.fields
    vPc            \* where the validation scope is

VARIABLES
    gInput,        \* generate call -> what it was called with
    gPc,           \* generate call -> where it is
    gSpawned,      \* generate call -> subprocesses it started
    gStatus,       \* generate call -> exit status of its subprocess (-1: none)
    gResult        \* generate call -> what it returned

VARIABLES
    mRobj,         \* the registered node: attribute -> value
    mLog,          \* the errors recorded: <<merge, reason, attribute>>
    mCount         \* merges made so far

VARIABLES
    nGen,          \* dependency -> its generator field
    nProvider,     \* dependency -> its provider field
    nDeps,         \* dependency -> its dependencies field
    nSrc,          \* the dependencies that have sources
    nTargets,      \* the targets handed to the graph-file backend
    nLeft,         \* the targets its loop has not passed yet
    nVisited,      \* the backend's visited set
    nFile,         \* the statements written to build.ninja, in order
    nCalls,        \* node -> calls of visit on it
    nPc            \* "idle" | "visiting" | "raised" | "run"

VARIABLES
    xGraph,        \* node -> the nodes its _resolve expands
    xExpanded,     \* node -> _expanded
    xLocked,       \* node -> its lock is locked
    xWaiters,      \* node -> the tasks waiting for its lock, in arrival order
    xWoken,        \* the tasks whose waiter future has been resolved
    xStack,        \* task -> its expand calls in progress, innermost last
    xCalled        \* the tasks that have made their call

findVars == <<finders, finderOrder, finderLocates, extPath, iterated, invoked,
              resolvePc>>
ftVars == <<filetypes, ftExtensions, ftValid, ftPrepared>>
envVars == <<envParent, envDeclared, envVal, envPrepared>>
depVars == <<dep, outResult, yielded, created, depCalls>>
buildVars == <<bDeps, bSources, bFails, dryRun, workingSet, dispatched, invs,
               topErrs, topAborted, bodyRaised, topStarted, bExpanded,
               synthDone, cmdRuns, cmdInputs, hookCalled, dropped, buildPc>>
incVars == <<incVisited, incStack, executed, nInc>>
logVars == <<errLog>>
valVars == <<vGiven, vFields, vDeclared, vPc>>
genVars == <<gInput, gPc, gSpawned, gStatus, gResult>>
mrgVars == <<mRobj, mLog, mCount>>
ninVars == <<nGen, nProvider, nDeps, nSrc, nTargets, nLeft, nVisited, nFile,
             nCalls, nPc>>
grVars == <<xGraph, xExpanded, xLocked, xWaiters, xWoken, xStack, xCalled>>
auxVars == <<findVars, ftVars, envVars, depVars, buildVars,
            incVars,
            logVars,
            valVars,
            genVars,
            mrgVars,
            ninVars,
            grVars>>
vars == <<regVars, errVars, act, lockVars, lifeVars, auxVars>>

NoEvent == <<"none", 0>>

Registered(n) == \E tn \in TNames : registry[tn] = n

\* target.is_forward_ref: no public field besides name (nofwdref: never).
IsForwardRefOf(c, fl) == ~NoFwdRef(c) /\ \A k \in Keys : fl[k] = Absent
IsForwardRef(n) == IsForwardRefOf(cls[n], fields[n])

\* ------------------------------------------------------------ error counter

\* utility.error: haserror = haserror + 1, execution continues.
ErrorCountKept(h) == h
ErrorCount(h) == h + 1

\* utility.stop_on_error: exits the process iff the counter is non-zero.
StopOnErrorNever(h) == FALSE
StopOnError(h) == h # 0

\* utility.error, lines 81-87: the prefix of the logged message; a line is
\* only mentioned together with a file.
ErrorPrefix(file, line) ==
    IF file THEN IF line THEN "Error in file at line" ELSE "Error in file"
    ELSE "Error"

\* ------------------------------------------------------------- declarations

\* _.ensure_can_create: creating is fatal while the phase is 'prepare'.
EnsureCanCreateAfterLoad(ph) == ph \in {"prepare", "postload"}
EnsureCanCreateFatal(ph) == ph = "prepare"

\* _.update, line 165: a registered node that is already expanded.
UpdateExpandedNever(r) == FALSE
UpdateExpandedFatal(r) == expanded[r]

\* _.update, line 182: the incoming fields that are recorded as errors.
ConflictsDespiteOverride(old, fl, ov) ==
    {k \in Keys : fl[k] # Absent /\ old[k] # Absent /\ old[k] # fl[k]}
Conflicts(old, fl, ov) ==
    {k \in Keys : fl[k] # Absent /\ old[k] # Absent /\ old[k] # fl[k] /\ ~ov}

\* _.update, line 185: setattr(robj, key, value) for every incoming field.
MergedFields(old, fl, ov) ==
    [k \in Keys |-> IF fl[k] # Absent THEN fl[k] ELSE old[k]]

\* _.update, lines 176-185 with bunch.__iter__ (utility.py lines 104-107): the
\* loop over the incoming object's fields passes over every key that starts
\* with '_', so a merge writes neither _prepared nor _expanded of node r.
MergedFlagReset(flag, r) == [flag EXCEPT ![r] = FALSE]
MergedFlag(flag, r) == flag

\* _.update, lines 163-164 and 187/195: the node a declaration returns, given
\* the registry entry under its qualified name and the freshly built object.
UpdateReturnFresh(r, fresh) == fresh
UpdateReturn(r, fresh) == IF r # 0 THEN r ELSE fresh

\* _.update, line 189: the registry after a declaration of qualified name tn.
UpdateRegistry(tn, fresh) ==
    IF registry[tn] # 0 THEN registry ELSE [registry EXCEPT ![tn] = fresh]

\* Some task is inside a hook. The sources declare nothing while the phase is
\* 'prepare'; the model admits there what _.ensure_can_create is written for,
\* a hook that declares a name not yet registered.
InHook == \E t \in DOMAIN pc : pc[t] \in {"pHook", "ePrep", "eRes"}

\* Target.__call__(cls, name, **kwargs) with _.update: declare class c, name
\* nm, fields fl, override ov.
Declare(c, nm, fl, ov) ==
    LET tn == target_name(c, nm)
        r == registry[tn]
        fresh == nextId
        confl == Conflicts(fields[r], fl, ov)
    IN  /\ ~halted
        /\ UNCHANGED auxVars
        /\ phase \in {"load", "prepare", "postload"}
        /\ phase = "prepare" => InHook /\ r = 0
        /\ ndecl < MaxDecl
        /\ ndecl' = ndecl + 1
        /\ registry' = UpdateRegistry(tn, fresh)
        /\ IF r # 0
           THEN IF UpdateExpandedFatal(r)
                THEN /\ haserror' = ErrorCount(haserror)
                     /\ halted' = TRUE
                     /\ act' = "fatal_expanded"
                     /\ UNCHANGED <<nextId, cls, name, fields, ret>>
                ELSE /\ cls' = [cls EXCEPT ![r] = c]
                     /\ fields' = [fields EXCEPT
                                     ![r] = MergedFields(fields[r], fl, ov)]
                     /\ haserror' = haserror + Cardinality(confl)
                     /\ ret' = UpdateReturn(r, fresh)
                     /\ act' = IF confl # {} THEN "merge_conflict"
                               ELSE IF ov /\ fields'[r] # fields[r]
                                         /\ \E k \in Keys :
                                              /\ fields[r][k] # Absent
                                              /\ fields'[r][k] # fields[r][k]
                                    THEN "merge_override"
                                    ELSE "merge"
                     /\ UNCHANGED <<nextId, name, halted>>
           ELSE /\ nextId' = nextId + 1
                /\ cls' = [cls EXCEPT ![fresh] = c]
                /\ name' = [name EXCEPT ![fresh] = nm]
                /\ fields' = [fields EXCEPT ![fresh] = fl]
                /\ IF EnsureCanCreateFatal(phase)
                   THEN /\ haserror' = ErrorCount(haserror)
                        /\ halted' = TRUE
                        /\ act' = "fatal_create"
                        /\ UNCHANGED ret
                   ELSE /\ ret' = UpdateReturn(r, fresh)
                        /\ act' = "create"
                        /\ UNCHANGED <<haserror, halted>>
        /\ prepared' = IF r # 0 /\ ~UpdateExpandedFatal(r)
                       THEN MergedFlag(prepared, r) ELSE prepared
        /\ expanded' = IF r # 0 /\ ~UpdateExpandedFatal(r)
                       THEN MergedFlag(expanded, r) ELSE expanded
        /\ UNCHANGED <<phase, visited, loopIdx, lockVars, pc, tnode, ncalls,
                       prepRuns, resRuns, prepHook, resHook, poolAll, retEvent>>

DeclareAct ==
    \E c \in Classes, nm \in Names, fl \in FieldMaps, ov \in BOOLEAN :
        Declare(c, nm, fl, ov)

\* ------------------------------------------------------- schema validation

\* TargetValidator.__exit__: the public fields never declared via field(...).
UnrecognizedFields(c, fl) == {k \in Keys : fl[k] # Absent /\ k \notin Declared(c)}

\* TargetValidator.field with required=False: an absent field takes its default.
WithDefaults(c, fl) ==
    [k \in Keys |-> IF k \in Declared(c) /\ fl[k] = Absent
                    THEN DefaultVal ELSE fl[k]]

\* ---------------------------------------------------- the per-node lock

\* asyncio.Lock.acquire suspends the caller unless the lock is free and nobody
\* waits for it (the awaits at apimixins.py lines 48, 59, 71 and 88).
LockBusy(n) == locked[n] \/ waiters[n] # <<>>

\* asyncio.Lock.release -> _wake_up_first: the first waiter's future resolves.
WakeFirst(w) == IF w = <<>> THEN {} ELSE {Head(w)}

Without(w, t) == SelectSeq(w, LAMBDA x : x # t)

\* asyncio.Lock.release in the finally clauses (apimixins.py lines 51, 66, 74
\* and 100): a locked lock is unlocked and its first waiter woken; on a lock
\* that is not locked it raises RuntimeError, which replaces the return.
ReleaseRaises(n) == ~locked[n]
ReleaseWakes(n) == IF locked[n] THEN WakeFirst(waiters[n]) ELSE {}

\* expandable.prepare line 46 / expandable.expand line 69: the caller is a
\* follower, it only waits for the lock and returns.
PrepareIsFollower(n) == prepared[n]
ExpandNeverFollower(n) == FALSE
ExpandIsFollower(n) == expanded[n]

\* expandable.prepare line 48 / expandable.expand line 71: a follower awaits
\* the lock before it returns.
FollowerNeverWaits(n) == FALSE
FollowerWaits(n) == LockBusy(n)

\* expandable.expand lines 81-86: was_prepared.
WasPreparedAlways(n) == TRUE
WasPrepared(n) == prepared[n]

\* expandable.expand line 96, TargetPool.add: api._.pool.add(self).
PoolAddNothing(pool, n) == pool
PoolAdd(pool, n) == pool \cup {n}

\* ------------------------------------------------------- prepare / expand

\* expandable.prepare, up to its first suspension, called by task t on node n.
PrepareCall(t, n) ==
    /\ UNCHANGED <<expanded, resRuns, resHook, poolAll>>
    /\ IF PrepareIsFollower(n)
       THEN IF FollowerWaits(n)
            THEN /\ waiters' = [waiters EXCEPT ![n] = Append(@, t)]
                 /\ pc' = [pc EXCEPT ![t] = "pWait"]
                 /\ tnode' = [tnode EXCEPT ![t] = n]
                 /\ retEvent' = NoEvent
                 /\ UNCHANGED <<lockExists, locked, woken, prepared, prepRuns,
                                prepHook>>
            ELSE \* acquire, return self, release: nothing is left changed
                 /\ retEvent' = <<"prepare", n>>
                 /\ UNCHANGED <<lockVars, prepared, pc, tnode, prepRuns,
                                prepHook>>
       ELSE /\ lockExists' = [lockExists EXCEPT ![n] = TRUE]
            /\ waiters' = [waiters EXCEPT ![n] = <<>>]
            /\ prepared' = [prepared EXCEPT ![n] = TRUE]
            /\ UNCHANGED woken
            /\ IF HasPrepare(cls[n])
               THEN /\ locked' = [locked EXCEPT ![n] = TRUE]
                    /\ pc' = [pc EXCEPT ![t] = "pHook"]
                    /\ tnode' = [tnode EXCEPT ![t] = n]
                    /\ prepRuns' = [prepRuns EXCEPT ![n] = @ + 1]
                    /\ prepHook' = [prepHook EXCEPT ![n] = "running"]
                    /\ retEvent' = NoEvent
               ELSE /\ locked' = [locked EXCEPT ![n] = FALSE]
                    /\ retEvent' = <<"prepare", n>>
                    /\ UNCHANGED <<pc, tnode, prepRuns, prepHook>>

\* expandable.expand, up to its first suspension, called by task t on node n.
ExpandCall(t, n) ==
    /\ IF ExpandIsFollower(n)
       THEN /\ UNCHANGED <<expanded, prepared, lockExists, locked, woken,
                           prepRuns, resRuns, prepHook, resHook, poolAll>>
            /\ IF FollowerWaits(n)
               THEN /\ waiters' = [waiters EXCEPT ![n] = Append(@, t)]
                    /\ pc' = [pc EXCEPT ![t] = "eFWait"]
                    /\ tnode' = [tnode EXCEPT ![t] = n]
                    /\ retEvent' = NoEvent
               ELSE /\ retEvent' = <<"expand", n>>
                    /\ UNCHANGED <<waiters, pc, tnode>>
       ELSE /\ expanded' = [expanded EXCEPT ![n] = TRUE]
            /\ UNCHANGED woken
            /\ IF WasPrepared(n)
               THEN /\ UNCHANGED <<prepared, lockExists, prepRuns, prepHook>>
                    /\ IF LockBusy(n)
                       THEN /\ waiters' = [waiters EXCEPT ![n] = Append(@, t)]
                            /\ pc' = [pc EXCEPT ![t] = "eLWait"]
                            /\ tnode' = [tnode EXCEPT ![t] = n]
                            /\ retEvent' = NoEvent
                            /\ UNCHANGED <<locked, resRuns, resHook, poolAll>>
                       ELSE /\ UNCHANGED waiters
                            /\ IF HasResolve(cls[n])
                               THEN /\ locked' = [locked EXCEPT ![n] = TRUE]
                                    /\ pc' = [pc EXCEPT ![t] = "eRes"]
                                    /\ tnode' = [tnode EXCEPT ![t] = n]
                                    /\ resRuns' = [resRuns EXCEPT ![n] = @ + 1]
                                    /\ resHook' = [resHook EXCEPT
                                                     ![n] = "running"]
                                    /\ retEvent' = NoEvent
                                    /\ UNCHANGED poolAll
                               ELSE /\ poolAll' = PoolAdd(poolAll, n)
                                    /\ retEvent' = <<"expand", n>>
                                    /\ UNCHANGED <<locked, pc, tnode, resRuns,
                                                   resHook>>
               ELSE /\ lockExists' = [lockExists EXCEPT ![n] = TRUE]
                    /\ waiters' = [waiters EXCEPT ![n] = <<>>]
                    /\ prepared' = [prepared EXCEPT ![n] = TRUE]
                    /\ IF HasPrepare(cls[n])
                       THEN /\ locked' = [locked EXCEPT ![n] = TRUE]
                            /\ pc' = [pc EXCEPT ![t] = "ePrep"]
                            /\ tnode' = [tnode EXCEPT ![t] = n]
                            /\ prepRuns' = [prepRuns EXCEPT ![n] = @ + 1]
                            /\ prepHook' = [prepHook EXCEPT ![n] = "running"]
                            /\ retEvent' = NoEvent
                            /\ UNCHANGED <<resRuns, resHook, poolAll>>
                       ELSE IF HasResolve(cls[n])
                       THEN /\ locked' = [locked EXCEPT ![n] = TRUE]
                            /\ pc' = [pc EXCEPT ![t] = "eRes"]
                            /\ tnode' = [tnode EXCEPT ![t] = n]
                            /\ resRuns' = [resRuns EXCEPT ![n] = @ + 1]
                            /\ resHook' = [resHook EXCEPT ![n] = "running"]
                            /\ retEvent' = NoEvent
                            /\ UNCHANGED <<prepRuns, prepHook, poolAll>>
                       ELSE /\ locked' = [locked EXCEPT ![n] = FALSE]
                            /\ poolAll' = PoolAdd(poolAll, n)
                            /\ retEvent' = <<"expand", n>>
                            /\ UNCHANGED <<pc, tnode, prepRuns, prepHook,
                                           resRuns, resHook>>

\* A task waiting in Lock.acquire is woken and goes on: followers release the
\* lock and return, the expand leader starts the resolve hook.
Resume(t) ==
    LET n == tnode[t]
        w == Without(waiters[n], t)
    IN  /\ ~halted
        /\ UNCHANGED auxVars
        /\ pc[t] \in {"pWait", "eFWait", "eLWait"}
        /\ t \in woken
        /\ waiters' = [waiters EXCEPT ![n] = w]
        /\ act' = "resume"
        /\ UNCHANGED <<regVars, errVars, lockExists, prepared, expanded,
                       tnode, ncalls, prepRuns, prepHook>>
        /\ IF pc[t] = "eLWait" /\ HasResolve(cls[n])
           THEN /\ locked' = [locked EXCEPT ![n] = TRUE]
                /\ woken' = woken \ {t}
                /\ pc' = [pc EXCEPT ![t] = "eRes"]
                /\ resRuns' = [resRuns EXCEPT ![n] = @ + 1]
                /\ resHook' = [resHook EXCEPT ![n] = "running"]
                /\ retEvent' = NoEvent
                /\ UNCHANGED poolAll
           ELSE /\ locked' = [locked EXCEPT ![n] = FALSE]
                /\ woken' = (woken \ {t}) \cup WakeFirst(w)
                /\ pc' = [pc EXCEPT ![t] = "idle"]
                /\ poolAll' = IF pc[t] = "eLWait" THEN PoolAdd(poolAll, n)
                              ELSE poolAll
                /\ retEvent' = <<IF pc[t] = "pWait" THEN "prepare"
                                 ELSE "expand", n>>
                /\ UNCHANGED <<resRuns, resHook>>

\* The _prepare hook of a task's node ends: the class's validator scope closes
\* (unrecognized fields are errors, stop_on_error), then prepare returns or
\* expand goes on with the resolve hook.
PrepHookEnd(t) ==
    LET n == tnode[t]
        h == haserror + Cardinality(UnrecognizedFields(cls[n], fields[n]))
    IN  /\ ~halted
        /\ UNCHANGED auxVars
        /\ pc[t] \in {"pHook", "ePrep"}
        /\ fields' = [fields EXCEPT ![n] = WithDefaults(cls[n], @)]
        /\ haserror' = h
        /\ UNCHANGED <<phase, registry, nextId, cls, name, visited, loopIdx,
                       ndecl, ret, lockExists, waiters, prepared, expanded,
                       tnode, ncalls, prepRuns>>
        /\ IF StopOnError(h)
           THEN /\ halted' = TRUE
                /\ act' = "exit_validator"
                /\ retEvent' = NoEvent
                /\ UNCHANGED <<locked, woken, pc, resRuns, prepHook, resHook,
                               poolAll>>
           ELSE /\ UNCHANGED halted
                /\ prepHook' = [prepHook EXCEPT ![n] = "done"]
                /\ IF pc[t] = "ePrep" /\ HasResolve(cls[n])
                   THEN /\ pc' = [pc EXCEPT ![t] = "eRes"]
                        /\ resRuns' = [resRuns EXCEPT ![n] = @ + 1]
                        /\ resHook' = [resHook EXCEPT ![n] = "running"]
                        /\ act' = "prepared_inline"
                        /\ retEvent' = NoEvent
                        /\ UNCHANGED <<locked, woken, poolAll>>
                   ELSE /\ locked' = [locked EXCEPT ![n] = FALSE]
                        /\ woken' = woken \cup ReleaseWakes(n)
                        /\ pc' = [pc EXCEPT ![t] = "idle"]
                        /\ poolAll' = IF pc[t] = "ePrep"
                                      THEN PoolAdd(poolAll, n) ELSE poolAll
                        /\ act' = "prepared"
                        /\ retEvent' = IF ReleaseRaises(n)
                                       THEN <<"runtime_error", n>>
                                       ELSE <<IF pc[t] = "pHook" THEN "prepare"
                                              ELSE "expand", n>>
                        /\ UNCHANGED <<resRuns, resHook>>

\* The _resolve hook ends: pool.add(self), release, expand returns.
ResHookEnd(t) ==
    LET n == tnode[t]
    IN  /\ ~halted
        /\ UNCHANGED auxVars
        /\ pc[t] = "eRes"
        /\ resHook' = [resHook EXCEPT ![n] = "done"]
        /\ poolAll' = PoolAdd(poolAll, n)
        /\ locked' = [locked EXCEPT ![n] = FALSE]
        /\ woken' = woken \cup ReleaseWakes(n)
        /\ pc' = [pc EXCEPT ![t] = "idle"]
        /\ retEvent' = IF ReleaseRaises(n) THEN <<"runtime_error", n>>
                       ELSE <<"expand", n>>
        /\ act' = "expanded"
        /\ UNCHANGED <<regVars, errVars, lockExists, waiters, prepared,
                       expanded, tnode, ncalls, prepRuns, resRuns, prepHook>>

\* A hook raises (as external._resolve does at api.py line 864): nothing in the
\* sources catches the exception, the process ends.
HookFail(t) ==
    /\ ~halted
    /\ UNCHANGED auxVars
    /\ pc[t] \in {"pHook", "ePrep", "eRes"}
    /\ UNCHANGED haserror
    /\ halted' = TRUE
    /\ act' = "hook_failed"
    /\ retEvent' = NoEvent
    /\ UNCHANGED <<regVars, lockVars, prepared, expanded, pc, tnode, ncalls,
                   prepRuns, resRuns, prepHook, resHook, poolAll>>

\* A hook raises in a task whose caller goes on (a task of a task group,
\* api.py lines 617-623 and builder_async.py lines 13-25, whose siblings run
\* until the abort reaches them): the finally clause releases the lock, the
\* call ends with the exception, and the flags set before the hook stay set.
HookRaise(t) ==
    LET n == tnode[t]
    IN  /\ ~halted
        /\ UNCHANGED auxVars
        /\ pc[t] \in {"pHook", "ePrep", "eRes"}
        /\ prepHook' = IF pc[t] = "eRes" THEN prepHook
                       ELSE [prepHook EXCEPT ![n] = "failed"]
        /\ resHook' = IF pc[t] = "eRes" THEN [resHook EXCEPT ![n] = "failed"]
                      ELSE resHook
        /\ locked' = [locked EXCEPT ![n] = FALSE]
        /\ woken' = woken \cup ReleaseWakes(n)
        /\ pc' = [pc EXCEPT ![t] = "idle"]
        /\ retEvent' = <<"raised", n>>
        /\ act' = "hook_raised"
        /\ UNCHANGED <<regVars, errVars, lockExists, waiters, prepared,
                       expanded, tnode, ncalls, prepRuns, resRuns, poolAll>>

\* A task waiting in Lock.acquire (apimixins.py lines 48, 71 and 88) is
\* cancelled, as the task group of dependency.generate does to the siblings
\* of a failed task. acquire takes the waiter off the queue and, the lock
\* being free, wakes the next one; then the finally clause of prepare/expand
\* (lines 51, 74 and 100) calls release on the lock, whoever holds it.
Cancel(t) ==
    LET n == tnode[t]
        w == Without(waiters[n], t)
    IN  /\ ~halted
        /\ UNCHANGED auxVars
        /\ pc[t] \in {"pWait", "eFWait", "eLWait"}
        /\ waiters' = [waiters EXCEPT ![n] = w]
        /\ locked' = [locked EXCEPT ![n] = FALSE]
        /\ woken' = (woken \ {t}) \cup WakeFirst(w)
        /\ pc' = [pc EXCEPT ![t] = "idle"]
        /\ retEvent' = IF ReleaseRaises(n) THEN <<"runtime_error", n>>
                       ELSE <<"cancelled", n>>
        /\ act' = "cancelled"
        /\ UNCHANGED <<regVars, errVars, lockExists, prepared, expanded,
                       tnode, ncalls, prepRuns, resRuns, prepHook, resHook,
                       poolAll>>

\* A task calls node.prepare() (SpecLife: any caller of the mixin).
PrepareAct(t, n) ==
    /\ ~halted
    /\ UNCHANGED auxVars
    /\ phase = "postload"
    /\ pc[t] = "idle"
    /\ cls[n] # "none"
    /\ ncalls < MaxCalls
    /\ ncalls' = ncalls + 1
    /\ PrepareCall(t, n)
    /\ act' = "prepare_call"
    /\ UNCHANGED <<regVars, errVars>>

\* A task calls node.expand(): main.check/tree/build, builder.build,
\* dependency.generate and the resolve hooks, all after the load.
ExpandAct(t, n) ==
    /\ ~halted
    /\ UNCHANGED auxVars
    /\ phase = "postload"
    /\ pc[t] = "idle"
    /\ cls[n] # "none"
    /\ ncalls < (IF DOMAIN pc = {1} THEN MaxExpand ELSE MaxCalls)
    /\ ncalls' = ncalls + 1
    /\ ExpandCall(t, n)
    /\ act' = "expand_call"
    /\ UNCHANGED <<regVars, errVars>>

\* ------------------------------------------------------------ engine phases

\* _.load line 114.
StartLoad ==
    /\ ~halted
    /\ UNCHANGED auxVars
    /\ phase = "preload"
    /\ phase' = "load"
    /\ act' = "load"
    /\ UNCHANGED <<registry, nextId, cls, name, fields, visited, loopIdx,
                   ndecl, ret, errVars, lockVars, lifeVars>>

\* _.load lines 119-121: the checkpoint after the recipes, then 'prepare'.
CheckpointLoad ==
    /\ ~halted
    /\ UNCHANGED auxVars
    /\ phase = "load"
    /\ IF StopOnError(haserror)
       THEN /\ halted' = TRUE
            /\ act' = "exit_checkpoint"
            /\ UNCHANGED phase
       ELSE /\ phase' = "prepare"
            /\ act' = "phase"
            /\ UNCHANGED halted
    /\ UNCHANGED <<registry, nextId, cls, name, fields, visited, loopIdx,
                   ndecl, ret, haserror, lockVars, lifeVars>>

\* _.load lines 122-123 with _.prepare: one turn of the loop over the registry
\* (in insertion order), run by the main task.
EnginePrepare ==
    LET n == loopIdx
    IN  /\ ~halted
        /\ UNCHANGED auxVars
        /\ phase = "prepare"
        /\ pc[1] = "idle"
        /\ loopIdx < nextId
        /\ loopIdx' = loopIdx + 1
        /\ UNCHANGED <<phase, registry, nextId, cls, name, fields, ndecl, ret,
                       ncalls>>
        /\ IF n \in visited
           THEN /\ act' = "skip_visited"
                /\ UNCHANGED <<visited, errVars, lockVars, prepared, expanded,
                               pc, tnode, prepRuns, resRuns, prepHook, resHook,
                               poolAll, retEvent>>
           ELSE IF IsForwardRef(n)
           THEN /\ haserror' = ErrorCount(haserror)
                /\ halted' = TRUE
                /\ act' = "fatal_fwdref"
                /\ UNCHANGED <<visited, lockVars, prepared, expanded, pc,
                               tnode, prepRuns, resRuns, prepHook, resHook,
                               poolAll, retEvent>>
           ELSE /\ visited' = visited \cup {n}
                /\ PrepareCall(1, n)
                /\ act' = "prepare_call"
                /\ UNCHANGED errVars

\* _.load lines 125-127: the checkpoint after the loop, then 'postload'.
CheckpointPrepare ==
    /\ ~halted
    /\ UNCHANGED auxVars
    /\ phase = "prepare"
    /\ pc[1] = "idle"
    /\ loopIdx = nextId
    /\ IF StopOnError(haserror)
       THEN /\ halted' = TRUE
            /\ act' = "exit_checkpoint"
            /\ UNCHANGED phase
       ELSE /\ phase' = "postload"
            /\ act' = "phase"
            /\ UNCHANGED halted
    /\ UNCHANGED <<registry, nextId, cls, name, fields, visited, loopIdx,
                   ndecl, ret, haserror, lockVars, lifeVars>>

\* ------------------------------------------------------------ finder chain

\* Everything but the finder chain's variables.
findFrame == <<regVars, haserror, lockVars, lifeVars, ftVars, envVars,
               depVars, buildVars,
    incVars,
    logVars,
    valVars,
    genVars,
    mrgVars,
    ninVars,
    grVars>>

\* finder.find, lines 787-788: awaits the hook and has no return statement, so
\* the call evaluates to None whatever the hook did.
FinderFindReturn(located) == FALSE

\* The hook of finder f on an external (as builtin_recipes.default_find): a
\* finder that locates the external assigns target.path.
HookPath(f, path) == IF finderLocates[f] THEN f ELSE path

\* finder._prepare, line 785: _.finders.add(self).
FinderPrepare(f, loc) ==
    /\ ~halted
    /\ resolvePc = "idle"
    /\ f \notin finders
    /\ finders' = finders \cup {f}
    /\ finderOrder' = Append(finderOrder, f)
    /\ finderLocates' = [finderLocates EXCEPT ![f] = loc]
    /\ act' = "finder_prepare"
    /\ UNCHANGED <<findFrame, halted, extPath, iterated, invoked, resolvePc>>

\* external._resolve, lines 856-857: nothing to do when the path is set.
ResolveStart ==
    /\ ~halted
    /\ resolvePc = "idle"
    /\ resolvePc' = IF extPath # 0 THEN "done" ELSE "loop"
    /\ act' = "resolve_start"
    /\ UNCHANGED <<findFrame, halted, finders, finderOrder, finderLocates,
                   extPath, iterated, invoked>>

\* external._resolve, lines 859-861: one turn of `for f in _.finders`. _.finders
\* is a set of objects hashed by identity: the loop takes them in an order
\* the program does not fix.
FinderFind(f) ==
    /\ ~halted
    /\ resolvePc = "loop"
    /\ f \in finders \ iterated
    /\ iterated' = iterated \cup {f}
    /\ invoked' = Append(invoked, f)
    /\ extPath' = HookPath(f, extPath)
    /\ resolvePc' = IF FinderFindReturn(finderLocates[f]) THEN "done" ELSE "loop"
    /\ act' = "finder_find"
    /\ UNCHANGED <<findFrame, halted, finders, finderOrder, finderLocates>>

\* external._resolve, lines 863-864: after the loop, TypeError when the path is
\* still unset (nothing catches it).
ResolveEnd ==
    /\ ~halted
    /\ resolvePc = "loop"
    /\ iterated = finders
    /\ IF extPath = 0
       THEN /\ halted' = TRUE
            /\ resolvePc' = "failed"
            /\ act' = "resolve_failed"
       ELSE /\ resolvePc' = "done"
            /\ act' = "resolved"
            /\ UNCHANGED halted
    /\ UNCHANGED <<findFrame, finders, finderOrder, finderLocates, extPath,
                   iterated, invoked>>

\* ---------------------------------------------------------- filetype table

\* Everything but the filetype table's variables and the error counter.
ftFrame == <<regVars, lockVars, lifeVars, findVars, envVars, depVars,
             buildVars,
    incVars,
    logVars,
    valVars,
    genVars,
    mrgVars,
    ninVars,
    grVars>>

\* filetype._prepare, lines 755-763: the table after the loop over the first k
\* extensions of list es, each assigned to filetype ft.
RECURSIVE Registering(_, _, _, _)
Registering(tbl, es, k, ft) ==
    IF k = 0 THEN tbl
    ELSE [Registering(tbl, es, k - 1, ft) EXCEPT ![es[k]] = ft]

\* filetype._prepare, line 756: the first position of list es whose extension
\* is in the table when the loop gets there (0: none).
NeverClaimed(tbl, es, ft) == 0
FirstClaimed(tbl, es, ft) ==
    LET hits == {i \in 1 .. Len(es) :
                   Registering(tbl, es, i - 1, ft)[es[i]] # 0}
    IN  IF hits = {} THEN 0
        ELSE CHOOSE i \in hits : \A j \in hits : i <= j

\* filetype._prepare: the validator scope (required fields extensions and
\* generator, then stop_on_error), then the loop that fills _.filetypes; an
\* extension that is already in the table is self.fatal(...).
FiletypePrepare(ft) ==
    LET es == ftExtensions[ft]
        k == FirstClaimed(filetypes, es, ft)
    IN  /\ ~halted
        /\ ft \notin ftPrepared
        /\ ftPrepared' = ftPrepared \cup {ft}
        /\ UNCHANGED <<ftFrame, ftExtensions, ftValid>>
        /\ IF ~ftValid[ft]
           THEN /\ haserror' = ErrorCount(haserror)
                /\ halted' = StopOnError(haserror')
                /\ act' = "exit_validator"
                /\ UNCHANGED filetypes
           ELSE IF StopOnError(haserror)
           THEN /\ halted' = TRUE
                /\ act' = "exit_validator"
                /\ UNCHANGED <<haserror, filetypes>>
           ELSE IF k # 0
           THEN /\ filetypes' = Registering(filetypes, es, k - 1, ft)
                /\ haserror' = ErrorCount(haserror)
                /\ halted' = TRUE
                /\ act' = "fatal_extension"
           ELSE /\ filetypes' = Registering(filetypes, es, Len(es), ft)
                /\ act' = "filetype_prepared"
                /\ UNCHANGED <<haserror, halted>>

\* ------------------------------------------------------------ environments

\* Everything but the environments' variables and the error counter.
envFrame == <<regVars, lockVars, lifeVars, findVars, ftVars, depVars,
              buildVars,
    incVars,
    logVars,
    valVars,
    genVars,
    mrgVars,
    ninVars,
    grVars>>

\* environment._prepare, lines 430-435 and 443: self.parent after the parent
\* field took its default (None for the default environment itself).
EnvParentOf(e) ==
    IF envParent[e] # 0 THEN envParent[e]
    ELSE IF e = DefaultEnv THEN 0 ELSE DefaultEnv

\* environment._prepare, lines 445-450: every inherited field is read from the
\* parent object as it is at that moment.
FromParent(e, x) == envVal[EnvParentOf(e)][x]

\* TargetValidator.field, lines 78-84: an attribute that is missing or None.
FieldMissing(v) == v = NoAttr \/ v = NoneVal

\* environment._prepare, lines 436-440 and 452-456: the default of field x;
\* for the default environment the required fields have none that is used.
EnvDefault(e, x) == IF EnvParentOf(e) = 0 THEN NoneVal ELSE FromParent(e, x)

\* environment._prepare, lines 458-461: None becomes an empty collection.
NoneToEmpty(x, v) == IF x \notin RequiredOfDefault /\ v = NoneVal
                     THEN EmptyColl ELSE v

\* environment._prepare: the fields of e that are required and missing.
EnvRequiredMissing(e) ==
    {x \in EnvFields : /\ EnvParentOf(e) = 0
                       /\ x \in RequiredOfDefault
                       /\ FieldMissing(envVal[e][x])}

\* environment._prepare on environment e, whole (it never suspends): reading an
\* attribute the parent does not have raises AttributeError, which nothing
\* catches; a required field that is missing is an error and the validator's
\* stop_on_error exits; otherwise the missing fields take their defaults.
EnvPrepare(e) ==
    LET par == EnvParentOf(e)
        h == haserror + Cardinality(EnvRequiredMissing(e))
    IN  /\ ~halted
        /\ e \notin envPrepared
        /\ envPrepared' = envPrepared \cup {e}
        /\ UNCHANGED <<envFrame, envParent, envDeclared>>
        /\ IF par # 0 /\ \E x \in EnvFields : envVal[par][x] = NoAttr
           THEN /\ halted' = TRUE
                /\ act' = "attribute_error"
                /\ UNCHANGED <<haserror, envVal>>
           ELSE /\ haserror' = h
                /\ IF StopOnError(h)
                   THEN /\ halted' = TRUE
                        /\ act' = "exit_validator"
                        /\ UNCHANGED envVal
                   ELSE /\ envVal' = [envVal EXCEPT ![e] =
                            [x \in EnvFields |->
                               IF FieldMissing(envVal[e][x])
                               THEN NoneToEmpty(x, EnvDefault(e, x))
                               ELSE envVal[e][x]]]
                        /\ act' = "env_prepared"
                        /\ UNCHANGED halted

\* After the load, field x of a prepared environment e is assigned a new
\* value (a declaration with override=True merged by _.update, line 185).
EnvRedeclare(e, x) ==
    /\ ~halted
    /\ envPrepared = Envs
    /\ envVal[e][x] # LaterVal
    /\ envVal' = [envVal EXCEPT ![e][x] = LaterVal]
    /\ act' = "env_redeclared"
    /\ UNCHANGED <<envFrame, errVars, envParent, envDeclared, envPrepared>>

\* ------------------------------------------------- dependency: outputs, inputs

\* Everything but the dependency's variables, the error counter and act.
depFrame == <<regVars, lockVars, lifeVars, findVars, ftVars, envVars,
              buildVars,
    incVars,
    logVars,
    valVars,
    genVars,
    mrgVars,
    ninVars,
    grVars>>

\* generator.kind_to_ext.
KindToExtObject(kind) == ".o"
kind_to_ext(kind) ==
    IF kind = "executable" THEN ""
    ELSE IF kind = "static_library" THEN ".a"
    ELSE IF kind = "shared_library" THEN ".so"
    ELSE IF kind = "object" THEN ".o"
    ELSE ".out"

\* generator.get_output on one input with the default output format
\* '{filename}{kindext}': the input without its extension, plus the kind's.
GeneratorOutput(src, kind) == Path(src.dir, src.stem, kind_to_ext(kind))

\* dependency.get_output, lines 549 and 555: anext(isources, None).
SourceAt(d, i) == IF i <= Len(d.sources) THEN d.sources[i] ELSE NonePath

\* expand_files, lines 22-27: when sources is a file target, going on after its
\* one path calls next() on an async generator, which raises TypeError.
SourcesRaiseAfter(d, i) == d.filesrc /\ i >= 1

\* dependency.get_output, lines 551-552: a local dependency returns its first
\* source.
OutputNeverSource(d) == FALSE
OutputIsSource(d) == d.provider = "local"

\* dependency.get_output, lines 554-558: the output is named after the
\* dependency.
OutputByName(d) ==
    \/ SourceAt(d, 1) = NonePath
    \/ SourceAt(d, 2) # NonePath
    \/ d.kind \in {"executable", "static_library", "shared_library"}

\* dependency.get_output, line 566: filetype.find(source) is fatal without a
\* filetype for the source's extension.
OutputFatal(d) ==
    /\ ~OutputIsSource(d)
    /\ ~OutputByName(d)
    /\ ~d.generator
    /\ filetypes[SourceAt(d, 1).ext] = 0

\* dependency.get_output: the returned path.
get_output(d) ==
    IF OutputIsSource(d) THEN SourceAt(d, 1)
    ELSE IF OutputByName(d)
    THEN Path(CtxFolder, DepName, kind_to_ext(d.kind))
    ELSE GeneratorOutput(SourceAt(d, 1), d.kind)

\* dependency.get_output, lines 554-555: the second anext is evaluated when
\* there is a first source.
OutputRaises(d) ==
    /\ ~OutputIsSource(d)
    /\ SourceAt(d, 1) # NonePath
    /\ SourcesRaiseAfter(d, 1)

\* dependency.get_output called on the dependency.
GetOutput ==
    /\ ~halted
    /\ "get_output" \notin depCalls
    /\ depCalls' = depCalls \cup {"get_output"}
    /\ UNCHANGED <<depFrame, dep, yielded, created>>
    /\ IF OutputRaises(dep)
       THEN /\ halted' = TRUE
            /\ act' = "type_error"
            /\ UNCHANGED <<haserror, outResult>>
       ELSE IF OutputFatal(dep)
       THEN /\ haserror' = ErrorCount(haserror)
            /\ halted' = TRUE
            /\ act' = "fatal_filetype"
            /\ UNCHANGED outResult
       ELSE /\ outResult' = get_output(dep)
            /\ act' = "get_output"
            /\ UNCHANGED errVars

\* dependency.get_dependencies, lines 581-582: the explicit dependencies,
\* expanded.
ExplicitNode(i) ==
    [name |-> Path("", "dep", ""), kind |-> "explicit", nofiletype |-> FALSE,
     generator |-> 0, provider |-> "internal", expanded |-> TRUE]
ExplicitNodes(d) == [i \in 1 .. d.ndeps |-> ExplicitNode(i)]

\* dependency.get_dependencies, lines 589-609: the node declared and expanded
\* for source src whose filetype is ft (0: none).
SynthNodeFlagUnset(d, src, ft) ==
    IF d.nofiletype \/ ft = 0
    THEN [name |-> src, kind |-> "source", nofiletype |-> FALSE,
          generator |-> 0, provider |-> "local", expanded |-> TRUE]
    ELSE [name |-> GeneratorOutput(src, "object"), kind |-> "object",
          nofiletype |-> FALSE, generator |-> ft, provider |-> "internal",
          expanded |-> TRUE]
SynthNode(d, src, ft) ==
    IF d.nofiletype \/ ft = 0
    THEN [name |-> src, kind |-> "source", nofiletype |-> FALSE,
          generator |-> 0, provider |-> "local", expanded |-> TRUE]
    ELSE [name |-> GeneratorOutput(src, "object"), kind |-> "object",
          nofiletype |-> TRUE, generator |-> ft, provider |-> "internal",
          expanded |-> TRUE]

\* dependency.get_dependencies, lines 584-609: the loop over the sources from
\* position i on, with the nodes yielded and the names declared so far. It
\* ends in a fatal error at an executable's source without filetype (line
\* 587) and at a name it declared, and expanded, before (_.update line 166),
\* and in an exception when get_sources raises.
RECURSIVE SynthLoop(_, _, _, _)
SynthLoop(d, i, ys, cr) ==
    IF SourcesRaiseAfter(d, i - 1)
    THEN [yielded |-> ys, created |-> cr, end |-> "raise"]
    ELSE IF i > Len(d.sources)
    THEN [yielded |-> ys, created |-> cr, end |-> "return"]
    ELSE LET src == d.sources[i]
             ft == filetypes[src.ext]
             node == SynthNode(d, src, ft)
         IN  IF (d.kind = "executable" /\ ft = 0) \/ node.name \in cr
             THEN [yielded |-> ys, created |-> cr, end |-> "fatal"]
             ELSE SynthLoop(d, i + 1, Append(ys, node),
                            cr \cup {node.name})

\* dependency.get_dependencies, lines 578-579: a local dependency has none.
get_dependencies(d) ==
    IF d.provider = "local"
    THEN [yielded |-> <<>>, created |-> {}, end |-> "return"]
    ELSE SynthLoop(d, 1, ExplicitNodes(d), {})

\* dependency.get_dependencies called on the dependency and iterated to its
\* end.
GetDependencies ==
    LET r == get_dependencies(dep)
    IN  /\ ~halted
        /\ "get_dependencies" \notin depCalls
        /\ depCalls' = depCalls \cup {"get_dependencies"}
        /\ yielded' = r.yielded
        /\ created' = r.created
        /\ haserror' = IF r.end = "fatal" THEN ErrorCount(haserror)
                       ELSE haserror
        /\ halted' = (r.end # "return")
        /\ act' = IF r.end = "fatal" THEN "fatal_dependencies"
                  ELSE IF r.end = "raise" THEN "type_error"
                  ELSE "get_dependencies"
        /\ UNCHANGED <<depFrame, dep, outResult>>

\* ------------------------------------------------------ direct orchestrator

\* Everything but the orchestrator's variables, the error counter and act.
buildFrame == <<regVars, lockVars, lifeVars, findVars, ftVars, envVars,
                depVars,
    incVars,
    logVars,
    valVars,
    genVars,
    mrgVars,
    ninVars,
    grVars>>

\* target.target_name: the raw name, which the prefixed mixin and external
\* replace by a name with the class prefix.
QualifiedName(n) ==
    IF BuildClass(n) = "file" THEN "file::src"
    ELSE IF BuildClass(n) = "external" THEN "external.executable::cc"
    ELSE n

\* target.is_normal_target: target_name() == name.
EveryTargetNormal(n) == TRUE
is_normal_target(n) == QualifiedName(n) = n

\* builder_async.builder, line 17: isinstance(t, api.external).
IsExternal(n) == BuildClass(n) = "external"

\* The classes that define generate (dependency, and through it external;
\* path, and through it file).
HasGenerate(n) == BuildClass(n) \in {"dependency", "external", "file"}

\* builder.build, line 834: the dry-run branch is taken.
DryRunIgnored(opt) == FALSE
IsDryRun(opt) == opt

\* A set as a sequence, in an order the set's iteration fixes.
RECURSIVE SeqOf(_)
SeqOf(S) == IF S = {} THEN <<>>
            ELSE LET x == CHOOSE y \in S : TRUE
                 IN  <<x>> \o SeqOf(S \ {x})

\* expandable.expand with dependency._resolve, lines 496-507, on the nodes of
\* sequence ns, given the set E of nodes with _expanded set: a node that is
\* expanded already returns at once; otherwise the flag is set, the node's own
\* resolution runs (and raises for the nodes of bFails), then its
\* dependencies are expanded. The result is the new set and the exception.
RECURSIVE ExpandAll(_, _)
ExpandAll(ns, E) ==
    IF ns = <<>> THEN [exp |-> E, exc |-> NoExc]
    ELSE LET n == Head(ns)
         IN  IF n \in E THEN ExpandAll(Tail(ns), E)
             ELSE IF n \in bFails
             THEN [exp |-> E \cup {n}, exc |-> n]
             ELSE LET r == ExpandAll(SeqOf(bDeps[n]), E \cup {n})
                  IN  IF r.exc # NoExc THEN r
                      ELSE ExpandAll(Tail(ns), r.exp)

\* The generate tasks created by task i (0: by the orchestrator).
Children(i) == {j \in DOMAIN invs : invs[j].parent = i}
RECURSIVE IsUnder(_, _)
IsUnder(j, i) ==
    \/ invs[j].parent = i
    \/ invs[j].parent # 0 /\ IsUnder(invs[j].parent, i)

\* A task the group no longer waits for: it returned, was cancelled, or failed
\* and the group has taken note.
TerminalAlways(j) == TRUE
Terminal(j) ==
    \/ invs[j].st \in {"done", "cancelled"}
    \/ invs[j].st = "failed" /\ invs[j].collected

NewTask(n, p) == [node |-> n, parent |-> p, st |-> "created", exc |-> NoExc,
                  errs |-> <<>>, aborted |-> FALSE, collected |-> FALSE]
NewTasks(ns, p) == [k \in 1 .. Len(ns) |-> NewTask(ns[k], p)]

\* asyncio.TaskGroup._abort for the group of task p: every task under it that
\* has not finished is cancelled.
Cancelled(q, p) ==
    [k \in DOMAIN q |->
        IF IsUnder(k, p) /\ q[k].st \in {"created", "joining"}
        THEN [q[k] EXCEPT !.st = "cancelled"] ELSE q[k]]

\* dependency.generate lines 621-623 and builder_async.builder lines 22-24:
\* `for e in eg.exceptions: raise e` leaves the loop at the first exception.
Reraised(errs) == Head(errs)
NotReraised(errs) == {errs[k] : k \in 2 .. Len(errs)}

\* builder.build, lines 832-840: after the builder's own expand, a dry run
\* expands the targets and returns; otherwise the backend hook is invoked.
BuildStart ==
    LET r == ExpandAll(SeqOf(workingSet), bExpanded)
    IN  /\ ~halted
        /\ buildPc = "idle"
        /\ UNCHANGED <<buildFrame, haserror, bDeps, bSources, bFails, dryRun,
                       workingSet, dispatched, invs, topErrs, topAborted,
                       bodyRaised, topStarted, synthDone, cmdRuns, cmdInputs, dropped>>
        /\ IF IsDryRun(dryRun)
           THEN /\ bExpanded' = r.exp
                /\ halted' = (r.exc # NoExc)
                /\ buildPc' = IF r.exc # NoExc THEN "raised" ELSE "done"
                /\ act' = IF r.exc # NoExc THEN "hook_failed" ELSE "dry_run"
                /\ UNCHANGED hookCalled
           ELSE /\ hookCalled' = TRUE
                /\ buildPc' = "dispatch"
                /\ act' = "hook"
                /\ UNCHANGED <<halted, bExpanded>>

\* builder_async.builder, lines 14-21: one turn of the loop over the targets
\* (a set: in any order). The loop does not suspend, so no task runs before
\* it ends. t.generate on a class without generate raises AttributeError,
\* which aborts the group: the tasks created so far are cancelled unstarted.
DispatchStep(t) ==
    /\ ~halted
    /\ buildPc = "dispatch"
    /\ t \in workingSet \ dispatched
    /\ dispatched' = dispatched \cup {t}
    /\ UNCHANGED <<buildFrame, errVars, bDeps, bSources, bFails, dryRun,
                   workingSet, bExpanded, synthDone, cmdRuns, cmdInputs, hookCalled,
                   dropped>>
    /\ IF ~is_normal_target(t) \/ IsExternal(t)
       THEN /\ act' = "dispatch_skip"
            /\ UNCHANGED <<invs, topErrs, topAborted, bodyRaised, topStarted,
                           buildPc>>
       ELSE IF ~HasGenerate(t)
       THEN /\ topErrs' = Append(topErrs, "AttributeError")
            /\ topAborted' = TRUE
            /\ bodyRaised' = TRUE
            /\ invs' = Cancelled(invs, 0)
            /\ buildPc' = "join"
            /\ act' = "dispatch_raised"
            /\ UNCHANGED topStarted
       ELSE /\ invs' = Append(invs, NewTask(t, 0))
            /\ topStarted' = topStarted \cup {t}
            /\ act' = "dispatch_task"
            /\ UNCHANGED <<topErrs, topAborted, bodyRaised, buildPc>>

\* builder_async.builder: the loop is over, the task group waits for its tasks.
DispatchEnd ==
    /\ ~halted
    /\ buildPc = "dispatch"
    /\ dispatched = workingSet
    /\ buildPc' = "join"
    /\ act' = "dispatch_end"
    /\ UNCHANGED <<buildFrame, errVars, bDeps, bSources, bFails, dryRun,
                   workingSet, dispatched, invs, topErrs, topAborted,
                   bodyRaised, topStarted, bExpanded, synthDone, cmdRuns, cmdInputs,
                   hookCalled, dropped>>

\* dependency.get_dependencies: the nodes it yields for node n, the explicit
\* dependencies first, then the object node of the source.
Yielded(n) ==
    SeqOf(bDeps[n]) \o (IF n \in bSources THEN <<"obj">> ELSE <<>>)

\* dependency.generate, lines 614 and 625: tasks is a set, and the input list
\* is built by iterating it, so in any of the orders of its members.
TaskSetOrders(S) ==
    {ord \in [1 .. Cardinality(S) -> S] :
        \A a, b \in 1 .. Cardinality(S) : a # b => ord[a] # ord[b]}

\* dependency.generate, lines 612-620, run by task i: expand the node, then
\* create a task for every node get_dependencies yields. A node with sources
\* declares and expands its source nodes there; declaring them again when
\* they are expanded is fatal (_.update line 166). file.generate (path,
\* line 381) only returns the name.
GenerateStart(i) ==
    LET n == invs[i].node
        r == ExpandAll(<<n>>, bExpanded)
        kids == NewTasks(Yielded(n), i)
        fans == BuildClass(n) = "dependency" /\ r.exc = NoExc
                  /\ ~(n \in bSources /\ n \in synthDone)
    IN  /\ ~halted
        /\ buildPc = "join"
        /\ invs[i].st = "created"
        /\ bExpanded' = IF BuildClass(n) # "dependency" THEN bExpanded
                        ELSE IF fans /\ n \in bSources
                        THEN r.exp \cup {"obj"}
                        ELSE r.exp
        /\ UNCHANGED <<buildFrame, bDeps, bSources, bFails, dryRun,
                       workingSet, dispatched, topErrs, topAborted, bodyRaised,
                       topStarted, cmdRuns, cmdInputs, hookCalled, dropped, buildPc>>
        /\ IF BuildClass(n) # "dependency"
           THEN /\ invs' = [invs EXCEPT ![i].st = "done"]
                /\ act' = "generate_done"
                /\ UNCHANGED <<errVars, synthDone>>
           ELSE IF r.exc # NoExc
           THEN /\ invs' = [invs EXCEPT ![i].st = "failed", ![i].exc = r.exc]
                /\ act' = "generate_failed"
                /\ UNCHANGED <<errVars, synthDone>>
           ELSE IF n \in bSources /\ n \in synthDone
           THEN /\ haserror' = ErrorCount(haserror)
                /\ halted' = TRUE
                /\ act' = "fatal_expanded"
                /\ UNCHANGED <<invs, synthDone>>
           ELSE /\ synthDone' = IF n \in bSources THEN synthDone \cup {n}
                                ELSE synthDone
                /\ invs' = [invs EXCEPT ![i].st = "joining"] \o kids
                /\ act' = "generate_fanout"
                /\ UNCHANGED errVars

\* The task group of task p (0: the orchestrator's) takes note of the failed
\* task j: the exception is collected and, the first time, the group aborts.
Collect(j) ==
    LET p == invs[j].parent
        q == [invs EXCEPT ![j].collected = TRUE]
        wasAborted == IF p = 0 THEN topAborted ELSE invs[p].aborted
        q2 == IF wasAborted THEN q ELSE Cancelled(q, p)
    IN  /\ ~halted
        /\ invs[j].st = "failed"
        /\ ~invs[j].collected
        /\ IF p = 0
           THEN /\ topErrs' = Append(topErrs, invs[j].exc)
                /\ topAborted' = TRUE
                /\ invs' = q2
           ELSE /\ invs' = [q2 EXCEPT ![p].errs = Append(@, invs[j].exc),
                                       ![p].aborted = TRUE]
                /\ UNCHANGED <<topErrs, topAborted>>
        /\ act' = "collect"
        /\ UNCHANGED <<buildFrame, errVars, bDeps, bSources, bFails, dryRun,
                       workingSet, dispatched, bodyRaised, topStarted,
                       bExpanded, synthDone, cmdRuns, cmdInputs, hookCalled, dropped,
                       buildPc>>

\* dependency.generate, lines 621-635, run by task i once its group is done:
\* with collected exceptions the first is raised; otherwise the node's
\* generator command is executed on the results of the tasks (a node's
\* result, its output path, is written as the node).
GenerateEnd(i) ==
    LET n == invs[i].node
    IN  /\ ~halted
        /\ invs[i].st = "joining"
        /\ \A j \in Children(i) : Terminal(j)
        /\ UNCHANGED <<buildFrame, errVars, bDeps, bSources, bFails, dryRun,
                       workingSet, dispatched, topErrs, topAborted, bodyRaised,
                       topStarted, bExpanded, synthDone, hookCalled, buildPc>>
        /\ IF invs[i].errs # <<>>
           THEN /\ invs' = [invs EXCEPT ![i].st = "failed",
                                        ![i].exc = Reraised(invs[i].errs)]
                /\ dropped' = dropped \cup NotReraised(invs[i].errs)
                /\ act' = "generate_reraised"
                /\ UNCHANGED <<cmdRuns, cmdInputs>>
           ELSE /\ invs' = [invs EXCEPT ![i].st = "done"]
                /\ cmdRuns' = [cmdRuns EXCEPT ![n] = @ + 1]
                /\ \E ord \in TaskSetOrders(Children(i)) :
                      cmdInputs' = [cmdInputs EXCEPT
                          ![n] = [k \in DOMAIN ord |-> invs[ord[k]].node]]
                /\ act' = "generate_command"
                /\ UNCHANGED dropped

\* builder_async.builder, lines 22-24, once the group is done: with collected
\* exceptions the first is raised and ends the run.
BuildEnd ==
    /\ ~halted
    /\ buildPc = "join"
    /\ \A j \in Children(0) : Terminal(j)
    /\ UNCHANGED <<buildFrame, haserror, bDeps, bSources, bFails, dryRun,
                   workingSet, dispatched, invs, topErrs, topAborted,
                   bodyRaised, topStarted, bExpanded, synthDone, cmdRuns, cmdInputs,
                   hookCalled>>
    /\ IF topErrs # <<>>
       THEN /\ halted' = TRUE
            /\ buildPc' = "raised"
            /\ dropped' = dropped \cup NotReraised(topErrs)
            /\ act' = "build_reraised"
       ELSE /\ buildPc' = "done"
            /\ act' = "build_done"
            /\ UNCHANGED <<halted, dropped>>

\* ------------------------------------------------------------------ include

\* Everything but the include variables and the error counter.
incFrame == <<regVars, lockVars, lifeVars, findVars, ftVars, envVars, depVars,
              buildVars,
    logVars,
    valVars,
    genVars,
    mrgVars,
    ninVars,
    grVars>>

\* os.path.isabs.
IsAbs(p) == p # <<>> /\ p[1] = "/"

\* os.path.dirname and os.path.join: both work on the text of the path, no
\* component is resolved.
DirName(p) == SubSeq(p, 1, Len(p) - 1)
PathJoin(d, p) == IF IsAbs(p) THEN p ELSE d \o p

\* The file system's view of a path: '..' steps to the parent directory (the
\* root is its own parent).
RECURSIVE Walk(_, _)
Walk(acc, p) ==
    IF p = <<>> THEN acc
    ELSE IF Head(p) = ".."
    THEN Walk(IF Len(acc) > 1 THEN SubSeq(acc, 1, Len(acc) - 1) ELSE acc,
              Tail(p))
    ELSE Walk(Append(acc, Head(p)), Tail(p))
FileOf(p) == Walk(<<>>, p)

\* os.path.isdir.
IsDir(p) == FileOf(p) \in RecipeDirs

\* _.include, lines 201-208: the path that is looked up in _.visited.
IncludePath(ctxfile, p) ==
    LET q == PathJoin(DirName(ctxfile), p)
    IN  IF IsDir(q) THEN Append(q, "simba") ELSE q

\* _.include, line 210: the include returns without executing anything.
IncludeSkips(path) == path \in incVisited

\* _.include called by the recipe being executed, with argument p:
\* stop_on_error, then the path is resolved, looked up, recorded, and the
\* file is opened and handed to exec in a child context.
Include(p) ==
    LET path == IncludePath(incStack[Len(incStack)], p)
    IN  /\ ~halted
        /\ incStack # <<>>
        /\ nInc < MaxIncludes
        /\ nInc' = nInc + 1
        /\ UNCHANGED <<incFrame, haserror>>
        /\ IF StopOnError(haserror)
           THEN /\ halted' = TRUE
                /\ act' = "exit_checkpoint"
                /\ UNCHANGED <<incVisited, incStack, executed>>
           ELSE IF IncludeSkips(path)
           THEN /\ act' = "include_skip"
                /\ UNCHANGED <<halted, incVisited, incStack, executed>>
           ELSE /\ incVisited' = incVisited \cup {path}
                /\ IF FileOf(path) \in RecipeFiles
                   THEN /\ incStack' = Append(incStack, path)
                        /\ executed' = Append(executed, path)
                        /\ act' = "include_exec"
                        /\ UNCHANGED halted
                   ELSE \* open raises FileNotFoundError
                        /\ halted' = TRUE
                        /\ act' = "include_missing"
                        /\ UNCHANGED <<incStack, executed>>

\* The recipe being executed ends: the context is closed, _.context is the
\* parent again.
IncludeReturn ==
    /\ ~halted
    /\ incStack # <<>>
    /\ incStack' = SubSeq(incStack, 1, Len(incStack) - 1)
    /\ act' = "include_return"
    /\ UNCHANGED <<incFrame, errVars, incVisited, executed, nInc>>

\* The recipe being executed records an error (utility.error, as a merge
\* conflict does).
RecipeError ==
    /\ ~halted
    /\ incStack # <<>>
    /\ haserror = 0
    /\ haserror' = ErrorCount(haserror)
    /\ act' = "error"
    /\ UNCHANGED <<incFrame, halted, incVars>>

\* ------------------------------------------------- error, fatal, checkpoint

\* Everything but the error counter, the log and act.
logFrame == <<regVars, lockVars, lifeVars, findVars, ftVars, envVars, depVars,
              buildVars, incVars,
    valVars,
    genVars,
    mrgVars,
    ninVars,
    grVars>>

\* utility.error(reason, file=..., line=...): count, log, return.
ErrorCall(file, line) ==
    /\ ~halted
    /\ haserror < MaxErrors
    /\ haserror' = ErrorCount(haserror)
    /\ errLog' = Append(errLog, ErrorPrefix(file, line))
    /\ act' = "error"
    /\ UNCHANGED <<logFrame, halted>>

\* utility.fatal(reason, file=..., line=...): error(...), then sys.exit(1).
FatalCall(file, line) ==
    /\ ~halted
    /\ haserror < MaxErrors
    /\ haserror' = ErrorCount(haserror)
    /\ errLog' = Append(errLog, ErrorPrefix(file, line))
    /\ halted' = TRUE
    /\ act' = "fatal"
    /\ UNCHANGED logFrame

\* utility.stop_on_error(): returns at once with a counter of zero, otherwise
\* sys.exit(1).
StopOnErrorCall ==
    /\ ~halted
    /\ halted' = StopOnError(haserror)
    /\ act' = IF StopOnError(haserror) THEN "exit_checkpoint"
              ELSE "checkpoint_passed"
    /\ UNCHANGED <<logFrame, haserror, errLog>>

\* ------------------------------------------------------- validation scope

\* Everything but the validator's variables, the error counter and act.
valFrame == <<regVars, lockVars, lifeVars, findVars, ftVars, envVars, depVars,
              buildVars, incVars, logVars,
    genVars,
    mrgVars,
    ninVars,
    grVars>>

\* TargetValidator.field, line 80: not hasattr(...) or getattr(...) is None.
ValueMissing(v) == v \in {"absent", "none"}

\* TargetValidator.field, lines 88-94: isinstance(field, t) for some t.
TypeAlwaysMatches(v, types) == TRUE
TypeMatches(v, types) == TypeOf(v) \in types

\* TargetValidator.__exit__, lines 109-115: the public fields of the node that
\* are not in self.fields.
Unrecognized(fl, declared) == {k \in VKeys : fl[k] # "absent" /\ k \notin declared}

\* TargetValidator.field for the next entry of the schema: the name is
\* recorded; a missing field is an error when required and takes the default
\* otherwise; a present field of no allowed type is an error.
ValField ==
    LET sp == Schema[vPc + 1]
        v == vFields[sp.f]
    IN  /\ ~halted
        /\ vPc < Len(Schema)
        /\ vPc' = vPc + 1
        /\ vDeclared' = vDeclared \cup {sp.f}
        /\ UNCHANGED <<valFrame, halted, vGiven>>
        /\ IF ValueMissing(v)
           THEN IF sp.required
                THEN /\ haserror' = ErrorCount(haserror)
                     /\ act' = "field_required"
                     /\ UNCHANGED vFields
                ELSE /\ vFields' = [vFields EXCEPT ![sp.f] = sp.default]
                     /\ act' = "field_default"
                     /\ UNCHANGED haserror
           ELSE IF TypeMatches(v, sp.types)
           THEN /\ act' = "field_ok"
                /\ UNCHANGED <<haserror, vFields>>
           ELSE /\ haserror' = ErrorCount(haserror)
                /\ act' = "field_type"
                /\ UNCHANGED vFields

\* TargetValidator.__exit__: one error per unrecognized field, then
\* stop_on_error.
ValExit ==
    LET h == haserror + Cardinality(Unrecognized(vFields, vDeclared))
    IN  /\ ~halted
        /\ vPc = Len(Schema)
        /\ vPc' = vPc + 1
        /\ haserror' = h
        /\ halted' = StopOnError(h)
        /\ act' = IF StopOnError(h) THEN "exit_validator" ELSE "scope_closed"
        /\ UNCHANGED <<valFrame, vGiven, vFields, vDeclared>>

\* ------------------------------------------------------- generator.generate

\* Everything but the generate calls, the error counter and act.
genFrame == <<regVars, lockVars, lifeVars, findVars, ftVars, envVars, depVars,
              buildVars, incVars, logVars, valVars,
    mrgVars,
    ninVars,
    grVars>>

\* generator.generate, lines 720-731: what happens before the subprocess.
\* With output=None the call awaits get_output, an async generator, which
\* raises TypeError; get_format raises when the template cannot be formatted.
RaisesBeforeCommand(inp) == inp # "ok"

\* utility.async_shell, line 171: proc.returncode != 0 and exit_on_error.
ExitNeverFatal(status) == FALSE
ExitIsFatal(status) == status # 0

\* generator.generate up to its suspension in async_shell: the output path is
\* made, the command is formatted and create_subprocess_shell starts it.
GenerateCall(c) ==
    /\ ~halted
    /\ gPc[c] = "new"
    /\ UNCHANGED <<genFrame, errVars, gInput, gStatus, gResult>>
    /\ IF RaisesBeforeCommand(gInput[c])
       THEN /\ gPc' = [gPc EXCEPT ![c] = "raised"]
            /\ act' = "generate_raised"
            /\ UNCHANGED gSpawned
       ELSE /\ gPc' = [gPc EXCEPT ![c] = "running"]
            /\ gSpawned' = [gSpawned EXCEPT ![c] = @ + 1]
            /\ act' = "subprocess"

\* The subprocess of call c exits with a status: async_shell is fatal on a
\* non-zero status, otherwise generate returns the output path.
SubprocessExit(c, status) ==
    /\ ~halted
    /\ gPc[c] = "running"
    /\ gStatus' = [gStatus EXCEPT ![c] = status]
    /\ UNCHANGED <<genFrame, gInput, gSpawned>>
    /\ IF ExitIsFatal(status)
       THEN /\ haserror' = ErrorCount(haserror)
            /\ halted' = TRUE
            /\ gPc' = [gPc EXCEPT ![c] = "exited"]
            /\ act' = "fatal_command"
            /\ UNCHANGED gResult
       ELSE /\ gPc' = [gPc EXCEPT ![c] = "returned"]
            /\ gResult' = [gResult EXCEPT ![c] = "output"]
            /\ act' = "generate_returned"
            /\ UNCHANGED errVars

\* ------------------------------------------------- the merge loop of update

\* Everything but the merge variables, the error counter and act.
mrgFrame == <<regVars, lockVars, lifeVars, findVars, ftVars, envVars, depVars,
              buildVars, incVars, logVars, valVars, genVars,
    ninVars,
    grVars>>

\* str.startswith('_').
StartsWithUnderscore(k) == Head(k) = "_"

\* bunch.__iter__, utility.py lines 104-107: the attributes of obj it yields,
\* those whose name does not start with '_'.
BunchIter(obj) ==
    {k \in MKeys : obj[k] # "absent" /\ ~StartsWithUnderscore(k)}

\* _.update, lines 176-180: the attributes the loop records as forbidden.
ForbiddenFields(obj) == {k \in BunchIter(obj) : StartsWithUnderscore(k)}

\* _.update, lines 182-183: the attributes the loop records as conflicts.
MergeConflicts(robj, obj, ov) ==
    {k \in BunchIter(obj) :
        robj[k] # "absent" /\ robj[k] # obj[k] /\ ~ov}

\* _.update, line 185: setattr(robj, key, value) for every attribute the loop
\* passes.
MergeAttrs(robj, obj) ==
    [k \in MKeys |-> IF k \in BunchIter(obj) THEN obj[k] ELSE robj[k]]

\* _.update, lines 176-187: the incoming object obj (constructed with these
\* keyword arguments, override ov) is merged into the registered node.
MergeInto(obj, ov) ==
    LET forb == ForbiddenFields(obj)
        confl == MergeConflicts(mRobj, obj, ov)
    IN  /\ ~halted
        /\ mCount < MaxMerges
        /\ mCount' = mCount + 1
        /\ mRobj' = MergeAttrs(mRobj, obj)
        /\ mLog' = mLog
                     \cup {<<mCount', "forbidden field", k>> : k \in forb}
                     \cup {<<mCount', "already exists", k>> : k \in confl}
        /\ haserror' = haserror + Cardinality(forb) + Cardinality(confl)
        /\ act' = "merge"
        /\ UNCHANGED <<mrgFrame, halted>>

\* ------------------------------------------------------ graph-file backend

\* Everything but the backend's variables and act.
ninFrame == <<regVars, errVars, lockVars, lifeVars, findVars, ftVars, envVars,
              depVars, buildVars, incVars, logVars, valVars, genVars, mrgVars,
    grVars>>

\* builder_ninja.py lines 209-212 and 248-252: the statements written.
RuleBlock(g) == <<"rule", g>>
BuildStatement(d, rule) == <<"build", d, rule>>

\* builder_ninja.py lines 204-207: the memo of visit.
NeverVisited(t, vis) == FALSE
AlreadyVisited(t, vis) == t \in vis

\* builder_ninja.py line 220: 'for dep in target.get_dependencies()' in the
\* plain function visit. get_dependencies is an async generator function
\* (api.py line 577), its result has no __iter__: the statement raises
\* TypeError before the first round of the loop, for every dependency.
SyncForRaises == TRUE

\* What get_dependencies is written to yield for dependency d (api.py lines
\* 578-609): nothing for provider local, else the explicit dependencies and a
\* node per source.
NinjaInputs(d) ==
    IF nProvider[d] = "local" THEN {}
    ELSE nDeps[d] \cup (IF d \in nSrc THEN {"src"} ELSE {})

\* builder_ninja.py lines 203-252, visit(target) on the emission state st
\* (visited set, file, call counts, exception raised). The statements after
\* the loop of line 220 follow as written; the alias statements of lines
\* 244-245 are left out.
RECURSIVE Visit(_, _)
RECURSIVE VisitAll(_, _)
Visit(t, st) ==
    LET called == [st EXCEPT !.calls[t] = @ + 1]
    IN  IF st.raised THEN st
        ELSE IF AlreadyVisited(t, st.vis) THEN called
        ELSE
          LET s1 == [called EXCEPT
                       !.vis = @ \cup {t},
                       !.file = IF NinjaClass(t) = "generator"
                                THEN Append(@, RuleBlock(t)) ELSE @]
          IN  IF NinjaClass(t) # "dependency" THEN s1
              ELSE
                LET s2 == IF nGen[t] # NoGenerator THEN Visit(nGen[t], s1)
                          ELSE s1
                IN  IF SyncForRaises THEN [s2 EXCEPT !.raised = TRUE]
                    ELSE
                      LET s3 == VisitAll(SeqOf(nDeps[t]), s2)
                      IN  IF s3.raised \/ nProvider[t] # "internal"
                               \/ NinjaInputs(t) = {}
                          THEN s3
                          ELSE [s3 EXCEPT
                                  !.file = Append(@, BuildStatement(t,
                                      IF nGen[t] # NoGenerator THEN nGen[t]
                                      ELSE "phony"))]
VisitAll(ts, st) ==
    IF ts = <<>> THEN st ELSE VisitAll(Tail(ts), Visit(Head(ts), st))

\* api.builder.build, lines 830-840, not a dry run: the backend is called
\* with the targets; it opens build.ninja and writes the header.
NinjaStart ==
    /\ nPc = "idle"
    /\ nPc' = "visiting"
    /\ nLeft' = nTargets
    /\ act' = "ninja_start"
    /\ UNCHANGED <<ninFrame, nGen, nProvider, nDeps, nSrc, nTargets, nVisited,
                   nFile, nCalls>>

\* builder_ninja.py lines 254-255: one round of 'for target in targets'
\* (targets is a set), with the whole of visit(target).
NinjaVisit(t) ==
    LET r == Visit(t, [vis |-> nVisited, file |-> nFile, calls |-> nCalls,
                       raised |-> FALSE])
    IN  /\ nPc = "visiting"
        /\ t \in nLeft
        /\ nLeft' = nLeft \ {t}
        /\ nVisited' = r.vis
        /\ nFile' = r.file
        /\ nCalls' = r.calls
        /\ nPc' = IF r.raised THEN "raised" ELSE "visiting"
        /\ act' = IF r.raised THEN "type_error" ELSE "visited"
        /\ UNCHANGED <<ninFrame, nGen, nProvider, nDeps, nSrc, nTargets>>

\* builder_ninja.py line 257: the loop is over, the file is closed and the
\* executor is run on it.
NinjaRun ==
    /\ nPc = "visiting"
    /\ nLeft = {}
    /\ nPc' = "run"
    /\ act' = "ninja_run"
    /\ UNCHANGED <<ninFrame, nGen, nProvider, nDeps, nSrc, nTargets, nLeft,
                   nVisited, nFile, nCalls>>

\* ------------------------------------------------ expand over a graph

\* Everything but the variables of the graph expansion and act.
grFrame == <<regVars, errVars, lockVars, lifeVars, findVars, ftVars, envVars,
             depVars, buildVars, incVars, logVars, valVars, genVars, mrgVars,
             ninVars>>

\* A call of expand in progress: the node, where the call is ("fwait": a
\* follower waiting for the lock, apimixins.py line 71; "lwait": the leader
\* waiting for it, line 88; "hook": inside _resolve, line 94), and how many
\* of the node's children the hook has expanded.
Frame(n, at, k) == [node |-> n, at |-> at, k |-> k]

\* dependency._resolve (api.py lines 495-507) and generator._resolve (lines
\* 673-674): the nodes the hook of n expands, one after the other.
ChildSeq(n) == SeqOf(xGraph[n])

\* asyncio.Lock.release, reached from the finally clauses of expand: the
\* first waiter is woken.
WakesNobody(n) == {}
WakesOnRelease(n) == WakeFirst(xWaiters[n])

\* expandable.expand called by task t on node n, up to its first suspension
\* or its return: the stack of t afterwards, given the stack below the call
\* with the caller's position already advanced.
ExpandEnter(t, n, below) ==
    IF xExpanded[n]
    THEN IF xLocked[n] \/ xWaiters[n] # <<>>
         THEN /\ xStack' = [xStack EXCEPT ![t] = Append(below,
                                                     Frame(n, "fwait", 0))]
              /\ xWaiters' = [xWaiters EXCEPT ![n] = Append(@, t)]
              /\ UNCHANGED <<xExpanded, xLocked>>
         ELSE /\ xStack' = [xStack EXCEPT ![t] = below]
              /\ UNCHANGED <<xExpanded, xLocked, xWaiters>>
    ELSE /\ xExpanded' = [xExpanded EXCEPT ![n] = TRUE]
         /\ IF xLocked[n] \/ xWaiters[n] # <<>>
            THEN /\ xStack' = [xStack EXCEPT ![t] = Append(below,
                                                        Frame(n, "lwait", 0))]
                 /\ xWaiters' = [xWaiters EXCEPT ![n] = Append(@, t)]
                 /\ UNCHANGED xLocked
            ELSE /\ xStack' = [xStack EXCEPT ![t] = Append(below,
                                                        Frame(n, "hook", 0))]
                 /\ xLocked' = [xLocked EXCEPT ![n] = TRUE]
                 /\ UNCHANGED xWaiters

\* The stack of a task whose innermost call has returned: the caller's hook
\* goes on with its next child.
Returned(st) ==
    LET below == SubSeq(st, 1, Len(st) - 1)
    IN  IF below = <<>> THEN below
        ELSE [below EXCEPT ![Len(below)].k = @ + 1]

\* A task calls expand on a node of the graph.
GraphCall(t, n) ==
    /\ t \notin xCalled
    /\ xCalled' = xCalled \cup {t}
    /\ ExpandEnter(t, n, <<>>)
    /\ act' = "expand_call"
    /\ UNCHANGED <<grFrame, xGraph, xWoken>>

\* The resolve hook task t is in expands its next child, or, with all of them
\* expanded, ends: pool.add, the lock is released, expand returns.
HookStep(t) ==
    LET st == xStack[t]
        top == st[Len(st)]
        n == top.node
        cs == ChildSeq(n)
    IN  /\ st # <<>>
        /\ top.at = "hook"
        /\ UNCHANGED <<grFrame, xGraph, xCalled>>
        /\ IF top.k < Len(cs)
           THEN /\ ExpandEnter(t, cs[top.k + 1],
                               IF xExpanded[cs[top.k + 1]]
                                  /\ ~xLocked[cs[top.k + 1]]
                                  /\ xWaiters[cs[top.k + 1]] = <<>>
                               THEN [st EXCEPT ![Len(st)].k = @ + 1]
                               ELSE st)
                /\ act' = "expand_child"
                /\ UNCHANGED xWoken
           ELSE /\ xLocked' = [xLocked EXCEPT ![n] = FALSE]
                /\ xWoken' = xWoken \cup WakesOnRelease(n)
                /\ xStack' = [xStack EXCEPT ![t] = Returned(st)]
                /\ act' = "expanded"
                /\ UNCHANGED <<xExpanded, xWaiters>>

\* A task woken in Lock.acquire goes on: a follower releases the lock and
\* returns, the leader enters the resolve hook.
GraphResume(t) ==
    LET st == xStack[t]
        top == st[Len(st)]
        n == top.node
        w == Without(xWaiters[n], t)
    IN  /\ st # <<>>
        /\ top.at \in {"fwait", "lwait"}
        /\ t \in xWoken
        /\ xWaiters' = [xWaiters EXCEPT ![n] = w]
        /\ act' = "resume"
        /\ UNCHANGED <<grFrame, xGraph, xExpanded, xCalled>>
        /\ IF top.at = "lwait"
           THEN /\ xLocked' = [xLocked EXCEPT ![n] = TRUE]
                /\ xWoken' = xWoken \ {t}
                /\ xStack' = [xStack EXCEPT ![t][Len(st)].at = "hook"]
           ELSE /\ xLocked' = [xLocked EXCEPT ![n] = FALSE]
                /\ xWoken' = (xWoken \ {t}) \cup WakeFirst(w)
                /\ xStack' = [xStack EXCEPT ![t] = Returned(st)]

\* The resolve hook task t is in raises (external._resolve, api.py line
\* 864): the exception leaves every expand call of the task, innermost
\* first, and each finally clause releases the lock of its node.
HookRaises(t) ==
    LET st == xStack[t]
        held == {st[i].node : i \in DOMAIN st}
    IN  /\ st # <<>>
        /\ st[Len(st)].at = "hook"
        /\ xLocked' = [n \in GNodes |-> xLocked[n] /\ n \notin held]
        /\ xWoken' = xWoken \cup UNION {WakesOnRelease(n) : n \in held}
        /\ xStack' = [xStack EXCEPT ![t] = <<>>]
        /\ act' = "hook_raised"
        /\ UNCHANGED <<grFrame, xGraph, xExpanded, xWaiters, xCalled>>

\* ------------------------------------------------------------ specifications

\* No finder registered, external._resolve not called.
FindIdle ==
    /\ finders = {}
    /\ finderOrder = <<>>
    /\ finderLocates = [f \in Finders |-> FALSE]
    /\ extPath = 0
    /\ iterated = {}
    /\ invoked = <<>>
    /\ resolvePc = "idle"

\* No filetype declared.
FtIdle ==
    /\ filetypes = [e \in Exts |-> 0]
    /\ ftExtensions = [ft \in Filetypes |-> <<>>]
    /\ ftValid = [ft \in Filetypes |-> TRUE]
    /\ ftPrepared = {}

\* No environment declared.
EnvIdle ==
    /\ envParent = [e \in Envs |-> 0]
    /\ envDeclared = [e \in Envs |-> {}]
    /\ envVal = [e \in Envs |-> [x \in EnvFields |-> NoAttr]]
    /\ envPrepared = {}

\* No dependency under study.
DepIdle ==
    /\ dep = [provider |-> "internal", kind |-> "unknown", sources |-> <<>>,
              generator |-> FALSE, nofiletype |-> FALSE, ndeps |-> 0,
              filesrc |-> FALSE]
    /\ outResult = NonePath
    /\ yielded = <<>>
    /\ created = {}
    /\ depCalls = {}

\* No build requested.
BuildIdle ==
    /\ bDeps = [n \in BuildNodes |-> {}]
    /\ bSources = {}
    /\ bFails = {}
    /\ dryRun = FALSE
    /\ workingSet = {}
    /\ dispatched = {}
    /\ invs = <<>>
    /\ topErrs = <<>>
    /\ topAborted = FALSE
    /\ bodyRaised = FALSE
    /\ topStarted = {}
    /\ bExpanded = {}
    /\ synthDone = {}
    /\ cmdRuns = [n \in BuildNodes |-> 0]
    /\ cmdInputs = [n \in BuildNodes |-> <<>>]
    /\ hookCalled = FALSE
    /\ dropped = {}
    /\ buildPc = "idle"

\* No recipe is being loaded.
IncIdle ==
    /\ incVisited = {}
    /\ incStack = <<>>
    /\ executed = <<>>
    /\ nInc = 0

\* Nothing logged.
LogIdle == errLog = <<>>

\* No validation scope is open.
ValIdle ==
    /\ vGiven = [k \in VKeys |-> "absent"]
    /\ vFields = [k \in VKeys |-> "absent"]
    /\ vDeclared = {}
    /\ vPc = 0

\* No generator is called.
GenIdle ==
    /\ gInput = <<>>
    /\ gPc = <<>>
    /\ gSpawned = <<>>
    /\ gStatus = <<>>
    /\ gResult = <<>>

\* No merge.
MrgIdle ==
    /\ mRobj = [k \in MKeys |-> "absent"]
    /\ mLog = {}
    /\ mCount = 0

\* The graph-file backend is not called.
NinIdle ==
    /\ nGen = [d \in NinjaDeps |-> NoGenerator]
    /\ nProvider = [d \in NinjaDeps |-> "internal"]
    /\ nDeps = [d \in NinjaDeps |-> {}]
    /\ nSrc = {}
    /\ nTargets = {}
    /\ nLeft = {}
    /\ nVisited = {}
    /\ nFile = <<>>
    /\ nCalls = [n \in NinjaNodes |-> 0]
    /\ nPc = "idle"

\* No graph is expanded.
GrIdle ==
    /\ xGraph = [n \in GNodes |-> {}]
    /\ xExpanded = [n \in GNodes |-> FALSE]
    /\ xLocked = [n \in GNodes |-> FALSE]
    /\ xWaiters = [n \in GNodes |-> <<>>]
    /\ xWoken = {}
    /\ xStack = [t \in Workers |-> <<>>]
    /\ xCalled = {}

InitNodes ==
    /\ prepared = [n \in Nodes |-> FALSE]
    /\ expanded = [n \in Nodes |-> FALSE]
    /\ lockExists = [n \in Nodes |-> FALSE]
    /\ locked = [n \in Nodes |-> FALSE]
    /\ waiters = [n \in Nodes |-> <<>>]
    /\ woken = {}
    /\ prepRuns = [n \in Nodes |-> 0]
    /\ resRuns = [n \in Nodes |-> 0]
    /\ prepHook = [n \in Nodes |-> "none"]
    /\ resHook = [n \in Nodes |-> "none"]
    /\ poolAll = {}
    /\ retEvent = NoEvent
    /\ haserror = 0
    /\ halted = FALSE
    /\ visited = {}
    /\ loopIdx = 1
    /\ ndecl = 0
    /\ ret = 0
    /\ act = "init"
    /\ name = [n \in Nodes |-> <<>>]
    /\ fields = [n \in Nodes |-> NoFields]
    /\ registry = [tn \in TNames |-> 0]

\* The engine right after construction: phase 'preload', an empty registry, the
\* main task.
Init ==
    /\ InitNodes
    /\ GrIdle
    /\ NinIdle
    /\ MrgIdle
    /\ GenIdle
    /\ ValIdle
    /\ LogIdle
    /\ IncIdle
    /\ FindIdle
    /\ FtIdle
    /\ EnvIdle
    /\ DepIdle
    /\ BuildIdle
    /\ phase = "preload"
    /\ nextId = 1
    /\ cls = [n \in Nodes |-> "none"]
    /\ pc = [t \in {1} |-> "idle"]
    /\ tnode = [t \in {1} |-> 0]
    /\ ncalls = 0

Next ==
    \/ StartLoad
    \/ DeclareAct
    \/ CheckpointLoad
    \/ EnginePrepare
    \/ CheckpointPrepare
    \/ \E n \in Nodes : ExpandAct(1, n)
    \/ PrepHookEnd(1)
    \/ ResHookEnd(1)
    \/ HookFail(1)

Spec == Init /\ [][Next]_vars

\* The mixin alone: NumLifeNodes nodes constructed after the load (unprepared,
\* with or without hooks), NumTasks tasks.
InitLife ==
    /\ InitNodes
    /\ GrIdle
    /\ NinIdle
    /\ MrgIdle
    /\ GenIdle
    /\ ValIdle
    /\ LogIdle
    /\ IncIdle
    /\ FindIdle
    /\ FtIdle
    /\ EnvIdle
    /\ DepIdle
    /\ BuildIdle
    /\ phase = "postload"
    /\ nextId = NumLifeNodes + 1
    /\ cls \in {f \in [Nodes -> {"target", "files", "none"}] :
                  \A n \in Nodes : f[n] = "none" <=> n > NumLifeNodes}
    /\ pc = [t \in Tasks |-> "idle"]
    /\ tnode = [t \in Tasks |-> 0]
    /\ ncalls = 0

NextLife ==
    \/ \E t \in Tasks, n \in Nodes : PrepareAct(t, n)
    \/ \E t \in Tasks, n \in Nodes : ExpandAct(t, n)
    \/ \E t \in Tasks : Resume(t)
    \/ \E t \in Tasks : PrepHookEnd(t)
    \/ \E t \in Tasks : ResHookEnd(t)
    \/ \E t \in Tasks : HookFail(t)

SpecLife == InitLife /\ [][NextLife]_vars

\* The mixin with tasks that belong to task groups: a hook that raises ends
\* its call only, and a waiting task may be cancelled.
NextCancel ==
    \/ \E t \in Tasks, n \in Nodes : PrepareAct(t, n)
    \/ \E t \in Tasks, n \in Nodes : ExpandAct(t, n)
    \/ \E t \in Tasks : Resume(t)
    \/ \E t \in Tasks : PrepHookEnd(t)
    \/ \E t \in Tasks : ResHookEnd(t)
    \/ \E t \in Tasks : HookRaise(t)
    \/ \E t \in Tasks : Cancel(t)

SpecCancel == InitLife /\ [][NextCancel]_vars

\* The finder chain: finder targets are prepared (registered) during the load,
\* then an external declared with or without a path is resolved.
InitFind ==
    /\ InitNodes
    /\ GrIdle
    /\ NinIdle
    /\ MrgIdle
    /\ GenIdle
    /\ ValIdle
    /\ LogIdle
    /\ IncIdle
    /\ phase = "postload"
    /\ nextId = 1
    /\ cls = [n \in Nodes |-> "none"]
    /\ pc = [t \in {1} |-> "idle"]
    /\ tnode = [t \in {1} |-> 0]
    /\ ncalls = 0
    /\ finders = {}
    /\ finderOrder = <<>>
    /\ finderLocates = [f \in Finders |-> FALSE]
    /\ extPath \in {0, GivenPath}
    /\ FtIdle
    /\ EnvIdle
    /\ DepIdle
    /\ BuildIdle
    /\ iterated = {}
    /\ invoked = <<>>
    /\ resolvePc = "idle"

NextFind ==
    \/ \E f \in Finders, loc \in BOOLEAN : FinderPrepare(f, loc)
    \/ ResolveStart
    \/ \E f \in Finders : FinderFind(f)
    \/ ResolveEnd

SpecFind == InitFind /\ [][NextFind]_vars

\* The filetype table: the engine in phase prepare with NumFiletypes filetype
\* targets declared during the load, prepared one after the other, then the
\* checkpoint that ends the phase.
InitFt ==
    /\ InitNodes
    /\ GrIdle
    /\ NinIdle
    /\ MrgIdle
    /\ GenIdle
    /\ ValIdle
    /\ LogIdle
    /\ IncIdle
    /\ FindIdle
    /\ phase = "prepare"
    /\ nextId = 1
    /\ cls = [n \in Nodes |-> "none"]
    /\ pc = [t \in {1} |-> "idle"]
    /\ tnode = [t \in {1} |-> 0]
    /\ ncalls = 0
    /\ filetypes = [e \in Exts |-> 0]
    /\ ftExtensions \in [Filetypes -> ExtLists]
    /\ ftValid \in [Filetypes -> BOOLEAN]
    /\ ftPrepared = {}
    /\ EnvIdle
    /\ DepIdle
    /\ BuildIdle

NextFt ==
    \/ \E ft \in Filetypes : FiletypePrepare(ft)
    \/ CheckpointPrepare

SpecFt == InitFt /\ [][NextFt]_vars

\* The environments: NumEnvs environments declared during the load, each with
\* any subset of the inherited fields and any parent; the engine's loop
\* prepares them in any order (the order of their registration).
InitEnv ==
    /\ InitNodes
    /\ GrIdle
    /\ NinIdle
    /\ MrgIdle
    /\ GenIdle
    /\ ValIdle
    /\ LogIdle
    /\ IncIdle
    /\ FindIdle
    /\ FtIdle
    /\ phase = "prepare"
    /\ nextId = 1
    /\ cls = [n \in Nodes |-> "none"]
    /\ pc = [t \in {1} |-> "idle"]
    /\ tnode = [t \in {1} |-> 0]
    /\ ncalls = 0
    /\ envParent \in {f \in [Envs -> 0 .. NumEnvs] : \A e \in Envs : f[e] < e}
    /\ envDeclared \in [Envs -> SUBSET EnvFields]
    /\ envVal = [e \in Envs |-> [x \in EnvFields |->
                    IF x \in envDeclared[e] THEN e ELSE NoAttr]]
    /\ envPrepared = {}
    /\ DepIdle
    /\ BuildIdle

NextEnv ==
    \/ \E e \in Envs : EnvPrepare(e)
    \/ \E e \in Envs, x \in EnvFields : EnvRedeclare(e, x)

SpecEnv == InitEnv /\ [][NextEnv]_vars

\* One prepared dependency after the load, with any provider, kind, sources,
\* generator and nofiletype flag (a local dependency has no explicit
\* dependencies, dependency._prepare line 492), and any filetype table. The
\* sources are glob strings or files groups that expand to the list
\* dep.sources, or one file target (filesrc) that expands to one path.
InitDep ==
    /\ InitNodes
    /\ GrIdle
    /\ NinIdle
    /\ MrgIdle
    /\ GenIdle
    /\ ValIdle
    /\ LogIdle
    /\ IncIdle
    /\ FindIdle
    /\ EnvIdle
    /\ phase = "postload"
    /\ nextId = 1
    /\ cls = [n \in Nodes |-> "none"]
    /\ pc = [t \in {1} |-> "idle"]
    /\ tnode = [t \in {1} |-> 0]
    /\ ncalls = 0
    /\ filetypes \in [Exts -> {0, 1}]
    /\ ftExtensions = [ft \in Filetypes |-> <<>>]
    /\ ftValid = [ft \in Filetypes |-> TRUE]
    /\ ftPrepared = {}
    /\ dep \in {d \in [provider : Providers, kind : Kinds,
                        sources : SourceLists, generator : BOOLEAN,
                        nofiletype : BOOLEAN, ndeps : 0 .. MaxDeps,
                        filesrc : BOOLEAN] :
                   /\ d.provider = "local" => d.ndeps = 0
                   /\ d.filesrc => Len(d.sources) = 1}
    /\ outResult = NonePath
    /\ yielded = <<>>
    /\ created = {}
    /\ depCalls = {}
    /\ BuildIdle

NextDep ==
    \/ GetOutput
    \/ GetDependencies

SpecDep == InitDep /\ [][NextDep]_vars

\* The direct orchestrator after the load: a build graph, the nodes with
\* sources, the nodes whose resolution raises, the dry-run option and the
\* target set handed to builder.build.
InitBuild ==
    /\ InitNodes
    /\ GrIdle
    /\ NinIdle
    /\ MrgIdle
    /\ GenIdle
    /\ ValIdle
    /\ LogIdle
    /\ IncIdle
    /\ FindIdle
    /\ FtIdle
    /\ EnvIdle
    /\ DepIdle
    /\ phase = "postload"
    /\ nextId = 1
    /\ cls = [n \in Nodes |-> "none"]
    /\ pc = [t \in {1} |-> "idle"]
    /\ tnode = [t \in {1} |-> 0]
    /\ ncalls = 0
    /\ bDeps \in BuildGraphs
    /\ bSources \in SUBSET {"lib"}
    /\ bFails \in SUBSET {"lib", "tool"}
    /\ dryRun \in BOOLEAN
    /\ workingSet \in WorkingSets
    /\ dispatched = {}
    /\ invs = <<>>
    /\ topErrs = <<>>
    /\ topAborted = FALSE
    /\ bodyRaised = FALSE
    /\ topStarted = {}
    /\ bExpanded = {}
    /\ synthDone = {}
    /\ cmdRuns = [n \in BuildNodes |-> 0]
    /\ cmdInputs = [n \in BuildNodes |-> <<>>]
    /\ hookCalled = FALSE
    /\ dropped = {}
    /\ buildPc = "idle"

NextBuild ==
    \/ BuildStart
    \/ \E t \in BuildNodes : DispatchStep(t)
    \/ DispatchEnd
    \/ \E i \in DOMAIN invs : GenerateStart(i)
    \/ \E j \in DOMAIN invs : Collect(j)
    \/ \E i \in DOMAIN invs : GenerateEnd(i)
    \/ BuildEnd

SpecBuild == InitBuild /\ [][NextBuild]_vars

\* The load, inside _.include(gcontext.__file__): the root recipe is recorded
\* in _.visited and is being executed.
InitInc ==
    /\ InitNodes
    /\ GrIdle
    /\ NinIdle
    /\ MrgIdle
    /\ GenIdle
    /\ ValIdle
    /\ LogIdle
    /\ FindIdle
    /\ FtIdle
    /\ EnvIdle
    /\ DepIdle
    /\ BuildIdle
    /\ phase = "load"
    /\ nextId = 1
    /\ cls = [n \in Nodes |-> "none"]
    /\ pc = [t \in {1} |-> "idle"]
    /\ tnode = [t \in {1} |-> 0]
    /\ ncalls = 0
    /\ incVisited = {RootRecipe}
    /\ incStack = <<RootRecipe>>
    /\ executed = <<RootRecipe>>
    /\ nInc = 0

NextInc ==
    \/ \E p \in IncludeArgs : Include(p)
    \/ IncludeReturn
    \/ RecipeError

SpecInc == InitInc /\ [][NextInc]_vars

\* The error counter alone: any caller of error, fatal and stop_on_error.
InitErr ==
    /\ InitNodes
    /\ GrIdle
    /\ NinIdle
    /\ MrgIdle
    /\ GenIdle
    /\ ValIdle
    /\ FindIdle
    /\ FtIdle
    /\ EnvIdle
    /\ DepIdle
    /\ BuildIdle
    /\ IncIdle
    /\ phase = "load"
    /\ nextId = 1
    /\ cls = [n \in Nodes |-> "none"]
    /\ pc = [t \in {1} |-> "idle"]
    /\ tnode = [t \in {1} |-> 0]
    /\ ncalls = 0
    /\ errLog = <<>>

NextErr ==
    \/ \E file \in BOOLEAN, line \in BOOLEAN : ErrorCall(file, line)
    \/ \E file \in BOOLEAN, line \in BOOLEAN : FatalCall(file, line)
    \/ StopOnErrorCall

SpecErr == InitErr /\ [][NextErr]_vars

\* A validation scope opens on a node with any public fields (the name is
\* always there).
InitVal ==
    /\ InitNodes
    /\ GrIdle
    /\ NinIdle
    /\ MrgIdle
    /\ GenIdle
    /\ FindIdle
    /\ FtIdle
    /\ EnvIdle
    /\ DepIdle
    /\ BuildIdle
    /\ IncIdle
    /\ LogIdle
    /\ phase = "prepare"
    /\ nextId = 1
    /\ cls = [n \in Nodes |-> "none"]
    /\ pc = [t \in {1} |-> "idle"]
    /\ tnode = [t \in {1} |-> 0]
    /\ ncalls = 0
    /\ vGiven \in {g \in [VKeys -> VValues \ {"-I"}] :
                     g["name"] \in {"text", "number"}}
    /\ vFields = vGiven
    /\ vDeclared = {}
    /\ vPc = 0

NextVal ==
    \/ ValField
    \/ ValExit

SpecVal == InitVal /\ [][NextVal]_vars

\* generator.generate alone: NumGenCalls calls, made by concurrent tasks.
InitGen ==
    /\ InitNodes
    /\ GrIdle
    /\ NinIdle
    /\ MrgIdle
    /\ FindIdle
    /\ FtIdle
    /\ EnvIdle
    /\ DepIdle
    /\ BuildIdle
    /\ IncIdle
    /\ LogIdle
    /\ ValIdle
    /\ phase = "postload"
    /\ nextId = 1
    /\ cls = [n \in Nodes |-> "none"]
    /\ pc = [t \in {1} |-> "idle"]
    /\ tnode = [t \in {1} |-> 0]
    /\ ncalls = 0
    /\ gInput \in [GenCalls -> GenInputs]
    /\ gPc = [c \in GenCalls |-> "new"]
    /\ gSpawned = [c \in GenCalls |-> 0]
    /\ gStatus = [c \in GenCalls |-> NoStatus]
    /\ gResult = [c \in GenCalls |-> "none"]

NextGen ==
    \/ \E c \in GenCalls : GenerateCall(c)
    \/ \E c \in GenCalls, status \in ExitStatuses : SubprocessExit(c, status)

SpecGen == InitGen /\ [][NextGen]_vars

\* The merge loop alone: a registered, unexpanded node with any attributes
\* (_frame is set by Target.__call__, apiutility.py line 164) and the
\* declarations of its name that follow.
InitMerge ==
    /\ InitNodes
    /\ GrIdle
    /\ NinIdle
    /\ GenIdle
    /\ ValIdle
    /\ LogIdle
    /\ IncIdle
    /\ FindIdle
    /\ FtIdle
    /\ EnvIdle
    /\ DepIdle
    /\ BuildIdle
    /\ phase = "load"
    /\ nextId = 1
    /\ cls = [n \in Nodes |-> "none"]
    /\ pc = [t \in {1} |-> "idle"]
    /\ tnode = [t \in {1} |-> 0]
    /\ ncalls = 0
    /\ mRobj \in {o \in MObjs : o[<<"_", "frame">>] # "absent"}
    /\ mLog = {}
    /\ mCount = 0

NextMerge == \E obj \in MObjs, ov \in BOOLEAN : MergeInto(obj, ov)

SpecMerge == InitMerge /\ [][NextMerge]_vars

\* The graph-file backend after the load: every registered node is prepared
\* (a generator field is a generator or None, a local dependency has no
\* dependencies, api.py lines 472-494), the dependency graph is acyclic, and
\* any non-empty set of registered nodes is handed over as targets.
InitNinja ==
    /\ InitNodes
    /\ GrIdle
    /\ GenIdle
    /\ ValIdle
    /\ LogIdle
    /\ IncIdle
    /\ FindIdle
    /\ FtIdle
    /\ EnvIdle
    /\ DepIdle
    /\ BuildIdle
    /\ MrgIdle
    /\ phase = "postload"
    /\ nextId = 1
    /\ cls = [n \in Nodes |-> "none"]
    /\ pc = [t \in {1} |-> "idle"]
    /\ tnode = [t \in {1} |-> 0]
    /\ ncalls = 0
    /\ nGen \in [NinjaDeps -> NinjaGens \cup {NoGenerator}]
    /\ nProvider \in [NinjaDeps -> {"internal", "local"}]
    /\ nDeps \in {f \in [NinjaDeps -> SUBSET NinjaDeps] :
                    /\ f["lib"] = {}
                    /\ f["app"] \subseteq {"lib"}
                    /\ \A d \in NinjaDeps :
                          nProvider[d] = "local" => f[d] = {}}
    /\ nSrc \in SUBSET NinjaDeps
    /\ nTargets \in SUBSET NinjaNodes \ {{}}
    /\ nLeft = {}
    /\ nVisited = {}
    /\ nFile = <<>>
    /\ nCalls = [n \in NinjaNodes |-> 0]
    /\ nPc = "idle"

NextNinja ==
    \/ NinjaStart
    \/ \E t \in NinjaNodes : NinjaVisit(t)
    \/ NinjaRun

\* The backend is one coroutine without suspension points before line 257:
\* once called it runs on.
SpecNinja == InitNinja /\ [][NextNinja]_vars /\ WF_vars(NextNinja)

\* Expansion over a graph after the load: every node is prepared (its lock
\* exists, free) and none is expanded; the graph is any acyclic one.
InitGraph ==
    /\ InitNodes
    /\ GenIdle
    /\ ValIdle
    /\ LogIdle
    /\ IncIdle
    /\ FindIdle
    /\ FtIdle
    /\ EnvIdle
    /\ DepIdle
    /\ BuildIdle
    /\ MrgIdle
    /\ NinIdle
    /\ phase = "postload"
    /\ nextId = 1
    /\ cls = [n \in Nodes |-> "none"]
    /\ pc = [t \in {1} |-> "idle"]
    /\ tnode = [t \in {1} |-> 0]
    /\ ncalls = 0
    /\ xGraph \in Graphs
    /\ xExpanded = [n \in GNodes |-> FALSE]
    /\ xLocked = [n \in GNodes |-> FALSE]
    /\ xWaiters = [n \in GNodes |-> <<>>]
    /\ xWoken = {}
    /\ xStack = [t \in Workers |-> <<>>]
    /\ xCalled = {}

NextGraph ==
    \/ \E t \in Workers, n \in GNodes : GraphCall(t, n)
    \/ \E t \in Workers : HookStep(t)
    \/ \E t \in Workers : GraphResume(t)
    \/ \E t \in Workers : HookRaises(t)

\* The hooks terminate and the event loop runs a task that is ready: while
\* some task is inside a hook or woken in acquire, one of them takes its next
\* step.
GraphProgress == \E t \in Workers : HookStep(t) \/ GraphResume(t)

SpecGraph == InitGraph /\ [][NextGraph]_vars /\ WF_vars(GraphProgress)

\* ------------------------------------------------------------------ claims

DeclInputs == Classes \X Names \X FieldMaps \X BOOLEAN
DeclStep(d) == Declare(d[1], d[2], d[3], d[4])
DeclName(d) == target_name(d[1], d[2])
\* The incoming fields of declaration d that differ from the value node r has.
Differing(r, d) ==
    {k \in Keys : d[3][k] # Absent /\ fields[r][k] # Absent
                  /\ fields[r][k] # d[3][k]}

C3_MergeKeepsIdentity ==
    /\ [](\A tn \in TNames, tn2 \in TNames :
            (tn # tn2 /\ registry[tn] # 0) => registry[tn] # registry[tn2])
    /\ [](\A n \in Nodes : cls[n] # "none" <=> Registered(n))
    /\ [][\A d \in DeclInputs :
            (DeclStep(d) /\ registry[DeclName(d)] # 0) =>
                /\ registry' = registry
                /\ nextId' = nextId
                /\ ~halted' =>
                     /\ ret' = registry[DeclName(d)]
                     /\ \A k \in Keys : d[3][k] # Absent =>
                            fields'[ret'][k] = d[3][k]]_vars

\* A second declaration has been merged into the one registered node.
C3_Witness ==
    /\ act \in {"merge", "merge_conflict", "merge_override"}
    /\ ndecl = 2
    /\ nextId = 2
    /\ ret = 1

\* C4 (Spec): in a merge, incoming fields that differ from the node's value
\* are recorded as errors when the declaration has no override; with override
\* no error is recorded and the fields take the incoming values.
C4_ConflictNeedsOverride ==
    [][\A d \in DeclInputs :
         LET r == registry[DeclName(d)]
         IN  (DeclStep(d) /\ r # 0 /\ ~expanded[r] /\ Differing(r, d) # {}) =>
                 IF d[4]
                 THEN /\ haserror' = haserror
                      /\ \A k \in Differing(r, d) : fields'[r][k] = d[3][k]
                 ELSE haserror' > haserror]_vars

\* A merge without override has just recorded a conflict.
C4_Witness ==
    /\ act = "merge_conflict"
    /\ haserror > 0
    /\ ~halted

\* C5 (Spec), as claimed: a conflicting field rejected in a merge (no
\* override) keeps the value the node had.
C5_RejectedFieldNotWritten ==
    [][\A d \in DeclInputs :
         LET r == registry[DeclName(d)]
         IN  (DeclStep(d) /\ r # 0 /\ ~expanded[r] /\ ~d[4]) =>
                 \A k \in Differing(r, d) : fields'[r][k] = fields[r][k]]_vars

\* C6 (Spec): any declaration under the qualified name of an expanded node
\* exits the process and changes neither the class nor a field of the node.
C6_ExpandedIsFrozen ==
    [][\A d \in DeclInputs :
         LET r == registry[DeclName(d)]
         IN  (DeclStep(d) /\ r # 0 /\ expanded[r]) =>
                 /\ halted'
                 /\ haserror' = haserror + 1
                 /\ cls' = cls
                 /\ fields' = fields
                 /\ registry' = registry]_vars

\* A declaration has hit an expanded node and the process has exited.
C6_Witness ==
    /\ act = "fatal_expanded"
    /\ halted
    /\ \E n \in Nodes : expanded[n]

C8_PostloadAllDefined ==
    phase = "postload" =>
        \A n \in visited : prepared[n] /\ ~IsForwardRef(n)

\* C9 (Spec), as claimed: the resolve hook never runs on a forward reference.
C9_ForwardRefNeverResolved ==
    \A n \in Nodes : IsForwardRef(n) => resRuns[n] = 0

\* C10 (Spec): the phase only steps preload -> load -> prepare -> postload;
\* it becomes prepare or postload only with an error counter of zero, and a
\* checkpoint reached with a non-zero counter exits instead.
C10_PhaseOrder ==
    [][/\ phase' # phase =>
            /\ <<phase, phase'>> \in {<<"preload", "load">>,
                                      <<"load", "prepare">>,
                                      <<"prepare", "postload">>}
            /\ phase' \in {"prepare", "postload"} =>
                   haserror = 0 /\ haserror' = 0 /\ ~halted'
       /\ ((CheckpointLoad \/ CheckpointPrepare) /\ haserror # 0) =>
               halted' /\ phase' = phase]_vars

\* The engine went through every phase with nodes registered.
C10_Witness ==
    /\ phase = "postload"
    /\ act = "phase"
    /\ visited # {}
    /\ haserror = 0

\* C11 (SpecFind), as claimed: once a finder has located the external, no
\* further finder is invoked and the external's path is the one that finder
\* set.
C11_FirstFinderWins ==
    \A i \in 1 .. Len(invoked) :
        finderLocates[invoked[i]] =>
            /\ i = Len(invoked)
            /\ extPath = invoked[i]

\* C12 (SpecFt), as claimed: preparing a filetype that lists an extension
\* already claimed by a different filetype increments the error counter and
\* does not terminate the process at that point.
C12_DuplicateExtensionRecoverable ==
    [][\A ft \in Filetypes :
         LET k == FirstClaimed(filetypes, ftExtensions[ft], ft)
         IN  (FiletypePrepare(ft) /\ ftValid[ft] /\ ~StopOnError(haserror)
                /\ k # 0 /\ filetypes[ftExtensions[ft][k]] \notin {0, ft}) =>
                 /\ haserror' = haserror + 1
                 /\ ~halted']_vars

\* The nearest environment on e's parent chain, e excluded, that declared
\* field x itself (0: none does).
RECURSIVE NearestDeclaring(_, _)
NearestDeclaring(e, x) ==
    LET par == EnvParentOf(e)
    IN  IF par = 0 THEN 0
        ELSE IF x \in envDeclared[par] THEN par
        ELSE NearestDeclaring(par, x)

\* C13 (SpecEnv), as claimed: with a default environment that declares its
\* required fields, in every order of preparation, an environment whose
\* preparation ran without a validation error holds, for each inherited
\* field it did not declare and that was not assigned later, the value
\* declared by the nearest ancestor that declares the field (the empty
\* collection when none does).
C13_InheritsNearestAncestor ==
    \A e \in Envs, x \in EnvFields :
        (e \in envPrepared /\ haserror = 0 /\ x \notin envDeclared[e]
           /\ RequiredOfDefault \subseteq envDeclared[DefaultEnv]
           /\ envVal[e][x] # LaterVal) =>
            envVal[e][x] = IF NearestDeclaring(e, x) # 0
                           THEN NearestDeclaring(e, x) ELSE EmptyColl

\* C14 (SpecDep): a local dependency's get_dependencies yields nothing and
\* declares nothing, and its get_output returns its single source path,
\* whatever its kind.
C14_LocalIsItsSource ==
    dep.provider = "local" =>
        /\ "get_dependencies" \in depCalls =>
              yielded = <<>> /\ created = {} /\ ~halted
        /\ ("get_output" \in depCalls /\ Len(dep.sources) = 1) =>
              outResult = dep.sources[1]

\* Both were called on a local executable with one source.
C14_Witness ==
    /\ dep.provider = "local"
    /\ dep.kind = "executable"
    /\ depCalls = {"get_output", "get_dependencies"}
    /\ Len(dep.sources) = 1
    /\ outResult = dep.sources[1]
    /\ yielded = <<>>

C17_CommandAtMostOnce ==
    /\ \A n \in BuildNodes : cmdRuns[n] <= 1
    /\ act # "fatal_expanded"

\* C18 (SpecBuild), as claimed: every exception a task group collected is
\* re-raised to the group's caller.
C18_NoExceptionDropped ==
    dropped = {}

C20_DryRunGeneratesNothing ==
    dryRun =>
        /\ ~hookCalled
        /\ invs = <<>>
        /\ \A n \in BuildNodes : cmdRuns[n] = 0
        /\ buildPc = "done" => workingSet \subseteq bExpanded

\* A dry run over the whole registry has returned.
C20_Witness ==
    /\ dryRun
    /\ buildPc = "done"
    /\ act = "dry_run"
    /\ {"lib", "tool", "app"} \subseteq workingSet
    /\ workingSet \subseteq bExpanded

\* C21 (SpecInc), as claimed: whatever include calls the recipes make, nested,
\* repeated or with different paths that lead to the same file, no recipe
\* file is executed twice.
C21_IncludedOnce ==
    \A i \in DOMAIN executed, j \in DOMAIN executed :
        i # j => FileOf(executed[i]) # FileOf(executed[j])

\* C22 (SpecErr): error adds exactly one to the error counter and the process
\* goes on; fatal adds one and the process exits; stop_on_error exits iff the
\* counter is not zero and changes nothing otherwise; the counter never
\* decreases.
C22_ErrorCounter ==
    [][/\ act' = "error" => haserror' = haserror + 1 /\ ~halted'
       /\ act' = "fatal" => haserror' = haserror + 1 /\ halted'
       /\ act' \in {"exit_checkpoint", "checkpoint_passed"} =>
             /\ halted' <=> haserror # 0
             /\ haserror' = haserror
             /\ errLog' = errLog
             /\ act' = "checkpoint_passed" <=> haserror = 0
       /\ haserror' >= haserror
       /\ Len(errLog') = haserror']_vars

\* After an error that let the process go on, a fatal error has ended it.
C22_Witness ==
    /\ act = "fatal"
    /\ halted
    /\ haserror = 2
    /\ Len(errLog) = 2

\* The fields of the schema whose given value is an error, and the given
\* fields that the schema does not have.
SchemaFields == {Schema[i].f : i \in DOMAIN Schema}
Faults ==
    {i \in DOMAIN Schema :
        IF vGiven[Schema[i].f] \in {"absent", "none"}
        THEN Schema[i].required
        ELSE TypeOf(vGiven[Schema[i].f]) \notin Schema[i].types}
Undeclared == {k \in VKeys \ SchemaFields : vGiven[k] # "absent"}

\* C23 (SpecVal): when the validation scope has closed and the process goes
\* on, every public field of the node is a declared one, every required field
\* has a value of an allowed type, and every optional field that was absent
\* holds its default; every missing required field, type mismatch and
\* undeclared field has added one to the error counter.
C23_ValidatedOnClose ==
    vPc = Len(Schema) + 1 =>
        /\ haserror = Cardinality(Faults) + Cardinality(Undeclared)
        /\ halted <=> haserror # 0
        /\ ~halted =>
              /\ \A k \in VKeys : vFields[k] # "absent" => k \in SchemaFields
              /\ \A i \in DOMAIN Schema :
                    LET sp == Schema[i]
                    IN  /\ sp.required =>
                              /\ vFields[sp.f] \notin {"absent", "none"}
                              /\ TypeOf(vFields[sp.f]) \in sp.types
                        /\ (~sp.required /\ vGiven[sp.f] = "absent") =>
                              vFields[sp.f] = sp.default
                        /\ vFields[sp.f] # "none" =>
                              TypeOf(vFields[sp.f]) \in sp.types

\* A scope has closed on a node that declared only its required fields; the
\* optional ones hold their defaults.
C23_Witness ==
    /\ vPc = Len(Schema) + 1
    /\ ~halted
    /\ act = "scope_closed"
    /\ vGiven["depfile"] = "absent"
    /\ vGiven["includefmt"] = "absent"
    /\ vFields["includefmt"] = "-I"
    /\ vFields["command"] = "text"

C27_FlagsMonotonic ==
    /\ [][\A n \in Nodes :
            /\ prepared[n] => prepared'[n]
            /\ expanded[n] => expanded'[n]]_vars
    /\ [](\A n \in Nodes : expanded[n] => prepared[n])

\* After the load a second declaration has been merged into a prepared node,
\* which is still prepared.
C27_Witness ==
    /\ phase = "postload"
    /\ act \in {"merge", "merge_conflict", "merge_override"}
    /\ ret # 0
    /\ prepared[ret]
    /\ prepHook[ret] = "done"

\* The extensions filetype ft lists.
Listed(ft) == {ftExtensions[ft][i] : i \in DOMAIN ftExtensions[ft]}

\* C28 (SpecFt): an extension that has an owner in the table keeps that owner
\* in every step; an extension gets its owner only from the filetype being
\* prepared, which lists it, so the owner is the first filetype that
\* registered the extension.
C28_FirstOwnerKept ==
    /\ [][\A e \in Exts :
            /\ filetypes[e] # 0 => filetypes'[e] = filetypes[e]
            /\ (filetypes[e] = 0 /\ filetypes'[e] # 0) =>
                  /\ FiletypePrepare(filetypes'[e])
                  /\ e \in Listed(filetypes'[e])]_vars
    /\ [](\A e \in Exts :
            filetypes[e] # 0 =>
                filetypes[e] \in ftPrepared /\ e \in Listed(filetypes[e]))

\* A second filetype listing an owned extension has been prepared and the
\* extension still belongs to the first.
C28_Witness ==
    \E e \in Exts, ft \in ftPrepared :
        /\ act = "fatal_extension"
        /\ e \in Listed(ft)
        /\ filetypes[e] \notin {0, ft}
        /\ filetypes[e] \in ftPrepared

\* C29 (SpecBuild): a generator command of a node is executed only by a
\* generate task of the node whose group holds one task for every node
\* get_dependencies yielded, each of them done, the commands of the yielded
\* dependencies executed before; a task with a failed or cancelled child
\* never executes the command.
C29_CommandAfterDependencies ==
    /\ [][\A n \in BuildNodes :
            cmdRuns'[n] > cmdRuns[n] =>
                \E i \in DOMAIN invs :
                    /\ invs[i].node = n
                    /\ invs[i].st = "joining" /\ invs'[i].st = "done"
                    /\ {invs[j].node : j \in Children(i)}
                          = {Yielded(n)[k] : k \in DOMAIN Yielded(n)}
                    /\ \A j \in Children(i) :
                          /\ invs[j].st = "done"
                          /\ cmdRuns[invs[j].node] >= 1]_vars
    /\ [](\A i \in DOMAIN invs :
            (\E j \in Children(i) : invs[j].st \in {"failed", "cancelled"}) =>
                invs[i].st # "done")
    /\ [][\A i \in DOMAIN invs :
            (\E j \in Children(i) : invs[j].st \in {"failed", "cancelled"}) =>
                cmdRuns'[invs[i].node] = cmdRuns[invs[i].node]
                  \/ \E i2 \in DOMAIN invs :
                        /\ i2 # i
                        /\ invs[i2].node = invs[i].node
                        /\ invs'[i2].st # invs[i2].st]_vars

\* The command of app has been executed after that of lib, which has a source
\* and ran after the command of its object node.
C29_Witness ==
    /\ act = "generate_command"
    /\ "lib" \in bSources
    /\ "lib" \in bDeps["app"]
    /\ cmdRuns["obj"] = 1
    /\ cmdRuns["lib"] = 1
    /\ cmdRuns["app"] = 1

\* C30 (SpecBuild), as claimed: the input list of a node's generator command
\* holds the outputs of the yielded nodes in the order get_dependencies
\* yielded them.
C30_InputsInYieldOrder ==
    \A n \in BuildNodes : cmdRuns[n] >= 1 => cmdInputs[n] = Yielded(n)

\* C36 (Spec), as claimed: after any sequence of declarations and merges,
\* every registry entry (key, node) has node.target_name() equal to the key.
C36_RegistryKeyConsistent ==
    \A tn \in TNames :
        registry[tn] # 0 =>
            target_name(cls[registry[tn]], name[registry[tn]]) = tn

\* C37 (Spec), as claimed: a name-only declaration through the generic target
\* class of a name registered with a more specific class and with fields
\* leaves the node's class and all of its fields unchanged.
C37_ReferenceKeepsClass ==
    [][\A d \in DeclInputs :
        LET r == registry[DeclName(d)]
        IN  (/\ DeclStep(d)
             /\ d[1] = "target"
             /\ d[3] = NoFields
             /\ r # 0
             /\ cls[r] \in {"dependency", "file"}
             /\ ~IsForwardRef(r)) =>
                /\ cls'[r] = cls[r]
                /\ fields'[r] = fields[r]]_vars

\* C31 (SpecMerge), as claimed: a merged declaration that carries an
\* attribute whose name starts with '_' gets an error recorded for it, and the
\* registered node's '_' attributes keep their values.
C31_PrivateFieldRejected ==
    [][\A obj \in MObjs, ov \in BOOLEAN :
        (/\ MergeInto(obj, ov)
         /\ \E k \in MKeys : StartsWithUnderscore(k) /\ obj[k] # "absent") =>
            /\ \E k \in MKeys :
                  /\ StartsWithUnderscore(k)
                  /\ obj[k] # "absent"
                  /\ <<mCount', "forbidden field", k>> \in mLog'
            /\ \A k \in MKeys :
                  StartsWithUnderscore(k) => mRobj'[k] = mRobj[k]]_vars

\* The statements of the file that are rule blocks of g, build statements
\* of d.
RulesOf(g) == {i \in DOMAIN nFile : nFile[i] = RuleBlock(g)}
BuildsOf(d) == {i \in DOMAIN nFile : nFile[i][1] = "build" /\ nFile[i][2] = d}

\* C32 (SpecNinja): in one emission every generator's rule block and every
\* dependency's build statement is written at most once, however often visit
\* is called on the node, and the emission comes to an end (the loop over the
\* targets is left, by its end or by an exception).
C32_WrittenAtMostOnce ==
    /\ [](\A n \in NinjaNodes :
            /\ Cardinality(RulesOf(n)) <= 1
            /\ Cardinality(BuildsOf(n)) <= 1)
    /\ <>(nPc \in {"run", "raised"})

\* visit was called twice on a generator, as a target and as the generator of
\* a dependency that is a target too, and the file has its rule block once.
C32_Witness ==
    \E g \in NinjaGens, d \in NinjaDeps :
        /\ {g, d} \subseteq nTargets
        /\ nGen[d] = g
        /\ nCalls[g] = 2
        /\ nCalls[d] = 1
        /\ Cardinality(RulesOf(g)) = 1

\* C33 (SpecNinja), as claimed: when the emission has ended, the visited
\* dependencies with a build statement in the file are exactly those with
\* provider internal and at least one input; the statement names the
\* dependency's generator, or phony without one, and comes after the rule
\* block of that generator.
C33_BuildStatements ==
    nPc \in {"run", "raised"} =>
        \A d \in NinjaDeps \cap nVisited :
            /\ BuildsOf(d) # {} <=>
                  (nProvider[d] = "internal" /\ NinjaInputs(d) # {})
            /\ \A i \in BuildsOf(d) :
                  /\ nFile[i][3] = (IF nGen[d] # NoGenerator THEN nGen[d]
                                     ELSE "phony")
                  /\ nGen[d] # NoGenerator =>
                        \E j \in RulesOf(nGen[d]) : j < i

\* C34 (SpecCancel), as claimed: a task cancelled while it waits for a node's
\* lock leaves the lock as it is, so that a running hook always has its
\* node's lock locked.
C34_ReleasedByHolderOnly ==
    /\ [][\A t \in Tasks :
            Cancel(t) => locked'[tnode[t]] = locked[tnode[t]]]_vars
    /\ [](\A t \in Tasks :
            pc[t] \in {"pHook", "ePrep", "eRes"} => locked[tnode[t]])

\* C39 (SpecCancel), as claimed: no expand call on a node returns normally
\* once the node's prepare or resolve hook has raised.
C39_FailureNeverSuccess ==
    \A n \in Nodes :
        retEvent = <<"expand", n>> =>
            prepHook[n] # "failed" /\ resHook[n] # "failed"

\* C38 (SpecBuild), as claimed: when a generate task of a dependency runs
\* get_dependencies after another generate task of the same node has run it
\* to its end, the second run completes without error and yields the same
\* nodes: the task gets one child per yielded node and the process goes on.
C38_GetDependenciesRepeatable ==
    [][\A i \in DOMAIN invs :
        LET n == invs[i].node
        IN  (/\ GenerateStart(i)
             /\ BuildClass(n) = "dependency"
             /\ \E j \in DOMAIN invs :
                   /\ j # i
                   /\ invs[j].node = n
                   /\ invs[j].st \in {"joining", "done"}) =>
                /\ ~halted'
                /\ invs'[i].st = "joining"
                /\ {invs'[k].node : k \in {k \in DOMAIN invs' :
                                              invs'[k].parent = i}}
                      = {Yielded(n)[k] : k \in DOMAIN Yielded(n)}]_vars

\* C35 (SpecGraph): on every acyclic graph, with every task calling expand on
\* any node, every expand call in progress eventually returns, and no task
\* is left waiting for a lock.
C35_ExpandReturns ==
    \A t \in Workers : (xStack[t] # <<>>) ~> (xStack[t] = <<>>)

\* A task that holds the lock of one node waits for the lock of another,
\* which a second task holds inside its hook.
C35_Witness ==
    \E t, u \in Workers :
        /\ t # u
        /\ Len(xStack[t]) >= 2
        /\ xStack[t][Len(xStack[t])].at = "fwait"
        /\ \E i \in DOMAIN xStack[u] :
              /\ xStack[u][i].node = xStack[t][Len(xStack[t])].node
              /\ xStack[u][i].at = "hook"

====
